---- MODULE Spec2Model ----
(***************************************************************************)
(* Texas Hold'em decision engine of adk_porker_2025.                       *)
(*                                                                         *)
(* The module models                                                       *)
(*   - the action normalizer  (team1 calc_gto._normalize_recommended_action)*)
(*   - the card-token parser  (team1 calc_gto._parse_card_string)          *)
(*   - the Monte Carlo loops  (team1 calc_gto._estimate_equity and         *)
(*                             team4 pokerkittool.pokerkit_tool)           *)
(*   - the decision function  (team1 calc_gto.calc_gto)                    *)
(*   - the pot-odds tools     (team2 and team3 calculate_pot_odds)         *)
(*   - the result integrators (team2 and team3 result_integrator)          *)
(*   - the cached equity tool (team2 tool_optimized.calculate_equity_fast) *)
(*   - the hand strength      (team3 pokerkit_utils.calculate_hand_strength)*)
(*                                                                         *)
(* Python strings are modelled as sequences of one-character strings, so   *)
(* that substring tests, prefix tests and digit extraction are computed    *)
(* the way the code computes them.                                         *)
(***************************************************************************)
EXTENDS Integers, Sequences, FiniteSets, TLC

VARIABLES
    n_pc,        \* normalizer harness: "idle", "call" before, "done" after the call
    n_rec,       \* recommendation passed to _normalize_recommended_action
    n_actions,   \* legal-action list passed to it (sequence of strings)
    n_stack,     \* stack passed to it
    n_out,       \* its return value, NoDecision before the call
    impl,        \* which entry point runs: "team1" (calc_gto), "team4" (pokerkit_tool),
                 \* "team2_pot_odds", "team3_pot_odds" (the calculate_pot_odds tools),
                 \* "team2_integrator", "team3_integrator", "team2_equity_fast",
                 \* "team3_hand_strength"
    pc,          \* its position: "idle", "start", "loop", "board", "score", "done"
    in_hole,     \* argument: hole card tokens
    in_comm,     \* argument: community card tokens
    in_players,  \* argument: num_players (team4: num_opponents + 1)
    in_iters,    \* argument: iterations (team4: simulations)
    ctx,         \* arguments pot, to_call, actions, stack, drawn where first read
                 \* (team3 integrator: the decoded state, mix and sizing)
    recommendation, \* calc_gto's recommendation before normalisation
    pot_odds,    \* the pot odds computed, <<numerator, denominator>>
    spr,         \* the stack-to-pot ratio computed, <<numerator, denominator>>
    hole,        \* parsed hole cards
    board,       \* parsed community cards
    num_opponents,
    simulated,   \* whether the equity simulation was entered
    it,          \* loop index of the trial loop
    wins,        \* team1: wins
    ties,        \* team1: ties
    trials,      \* team1: trials
    share,       \* team4: hero_share_sum, in units of 1/ShareUnit
    opponents,   \* this trial's opponent hands
    deck_after_opps, \* team1: the deck after the opponents' cards were drawn
    final_board, \* this trial's completed board
    last,        \* the trial just scored: who was best, and the credit given
    result,      \* what the entry point returned or raised
    random_state, \* how many shuffles and samples the generator of the random
                 \* module, seeded once per process, has served so far
    tool_state,  \* tool_context.state: NoCache or the equity_cache dictionary
    calls        \* the calls this process has completed, oldest first

nvars == <<n_pc, n_rec, n_actions, n_stack, n_out>>

svars == <<impl, pc, in_hole, in_comm, in_players, in_iters, ctx, recommendation,
           pot_odds, spr, hole, board,
           num_opponents, simulated, it, wins, ties, trials, share, opponents,
           deck_after_opps, final_board, last, result, random_state, tool_state,
           calls>>

vars == <<nvars, svars>>

\* what outlives a call
kept == <<random_state, tool_state, calls>>

(***************************************************************************)
(* Bounds of the model.                                                    *)
(***************************************************************************)
\* longest legal-action list drawn as an input
MaxActions == 3

\* largest iterations / simulations argument drawn as an input
MaxIter == 3

(***************************************************************************)
(* Python string helpers.                                                  *)
(***************************************************************************)
DigitChars == {"0", "1", "2", "3", "4", "5", "6", "7", "8", "9"}

\* str.isdigit on one character
IsDigit(ch) == ch \in DigitChars

\* int() of one digit character
DigitVal(ch) ==
    CASE ch = "0" -> 0 [] ch = "1" -> 1 [] ch = "2" -> 2 [] ch = "3" -> 3
      [] ch = "4" -> 4 [] ch = "5" -> 5 [] ch = "6" -> 6 [] ch = "7" -> 7
      [] ch = "8" -> 8 [] ch = "9" -> 9

\* str.lower on one character (the letters that occur in the inputs)
LowerChar(ch) ==
    CASE ch = "A" -> "a" [] ch = "B" -> "b" [] ch = "C" -> "c" [] ch = "D" -> "d"
      [] ch = "E" -> "e" [] ch = "F" -> "f" [] ch = "H" -> "h" [] ch = "I" -> "i"
      [] ch = "J" -> "j" [] ch = "K" -> "k" [] ch = "L" -> "l" [] ch = "N" -> "n"
      [] ch = "O" -> "o" [] ch = "Q" -> "q" [] ch = "R" -> "r" [] ch = "S" -> "s"
      [] ch = "T" -> "t" [] ch = "X" -> "x"
      [] OTHER -> ch

\* str.lower
Lower(s) == [i \in 1..Len(s) |-> LowerChar(s[i])]

\* s.startswith(p)
StartsWith(s, p) ==
    /\ Len(p) <= Len(s)
    /\ \A i \in 1..Len(p) : s[i] = p[i]

\* sub occurs in s at (1-based) position k
OccursAt(s, sub, k) ==
    /\ k + Len(sub) - 1 <= Len(s)
    /\ \A i \in 1..Len(sub) : s[k + i - 1] = sub[i]

\* sub in s
Contains(s, sub) == \E k \in 1..(Len(s) + 1) : OccursAt(s, sub, k)

\* s.index(sub) as a 0-based offset; used only where Contains(s, sub)
IndexOf(s, sub) ==
    (CHOOSE k \in 1..(Len(s) + 1) :
        /\ OccursAt(s, sub, k)
        /\ \A j \in 1..(k - 1) : ~OccursAt(s, sub, j)) - 1

\* "".join(ch for ch in s if ch.isdigit())
RECURSIVE DigitsOf(_)
DigitsOf(s) ==
    IF s = <<>> THEN <<>>
    ELSE IF IsDigit(Head(s)) THEN <<Head(s)>> \o DigitsOf(Tail(s))
    ELSE DigitsOf(Tail(s))

\* int(digits) for a non-empty string of digits
RECURSIVE IntOf(_)
IntOf(d) ==
    IF d = <<>> THEN 0
    ELSE 10 * IntOf(SubSeq(d, 1, Len(d) - 1)) + DigitVal(d[Len(d)])

\* s[start:] for a 0-based start
From(s, start) == SubSeq(s, start + 1, Len(s))

Injective(f) == \A i, j \in DOMAIN f : i # j => f[i] # f[j]

Max2(a, b) == IF a >= b THEN a ELSE b

Min2(a, b) == IF a <= b THEN a ELSE b

(***************************************************************************)
(* The words the code looks for, and the legal-action descriptors the      *)
(* repository's callers and tests pass.                                    *)
(***************************************************************************)
W_fold  == <<"f", "o", "l", "d">>

W_check == <<"c", "h", "e", "c", "k">>

W_call  == <<"c", "a", "l", "l">>

W_raise == <<"r", "a", "i", "s", "e">>

W_allin == <<"a", "l", "l", "-", "i", "n">>

W_min   == <<"m", "i", "n">>

W_bet   == <<"b", "e", "t">>

\* "call (20)"
A_call20 == W_call \o <<" ", "(", "2", "0", ")">>

\* "Call (50)"
A_Call50 == <<"C", "a", "l", "l", " ", "(", "5", "0", ")">>

\* "raise (min 40)"
A_raise40 == W_raise \o <<" ", "(", "m", "i", "n", " ", "4", "0", ")">>

\* "raise (min 100)"
A_raise100 == W_raise \o <<" ", "(", "m", "i", "n", " ", "1", "0", "0", ")">>

\* "all-in (30)"
A_allin30 == W_allin \o <<" ", "(", "3", "0", ")">>

\* "bet (min 10)"
A_bet10 == W_bet \o <<" ", "(", "m", "i", "n", " ", "1", "0", ")">>

ActionStrings ==
    {W_fold, W_check, A_call20, A_Call50, A_raise40, A_raise100, A_allin30, A_bet10}

(***************************************************************************)
(* calc_gto.py: amount extraction from the legal-action list.              *)
(***************************************************************************)
\* _extract_min_raise: the digits after "min" of the first descriptor that
\* contains "raise" and "min" and has such digits; 0 when there is none
RECURSIVE extract_min_raise(_)
extract_min_raise(actions) ==
    IF actions = <<>> THEN 0
    ELSE LET lower == Lower(Head(actions)) IN
         IF Contains(lower, W_raise) /\ Contains(lower, W_min)
         THEN LET start == IndexOf(lower, W_min) + 3
                  digits == DigitsOf(From(lower, start))
              IN IF digits # <<>> THEN IntOf(digits)
                 ELSE extract_min_raise(Tail(actions))
         ELSE extract_min_raise(Tail(actions))

\* _extract_call_amount: all digits of the first descriptor that contains
\* "call" and has digits; 0 when there is none
RECURSIVE extract_call_amount(_)
extract_call_amount(actions) ==
    IF actions = <<>> THEN 0
    ELSE LET lower == Lower(Head(actions)) IN
         IF Contains(lower, W_call)
         THEN LET digits == DigitsOf(lower)
              IN IF digits # <<>> THEN IntOf(digits)
                 ELSE extract_call_amount(Tail(actions))
         ELSE extract_call_amount(Tail(actions))

(***************************************************************************)
(* calc_gto.py: _normalize_recommended_action.                             *)
(***************************************************************************)
Decision(a, m) == [action |-> a, amount |-> m]

NoDecision == [action |-> "none", amount |-> 0]

\* available = [str(a).lower() for a in actions]
Available(actions) == [i \in 1..Len(actions) |-> Lower(actions[i])]

\* any(a.startswith("check") for a in available)
HasCheck(available) == \E i \in 1..Len(available) : StartsWith(available[i], W_check)

\* "fold" in available
HasFold(available) == \E i \in 1..Len(available) : available[i] = W_fold

\* any("call" in a for a in available)
HasCall(available) == \E i \in 1..Len(available) : Contains(available[i], W_call)

\* any("raise" in a for a in available)
HasRaise(available) == \E i \in 1..Len(available) : Contains(available[i], W_raise)

\* any("all-in" in a for a in available)
HasAllIn(available) == \E i \in 1..Len(available) : Contains(available[i], W_allin)

\* amount = int(max(0, min(int(recommendation.get("amount", 0)), max(0, stack))))
ClampAmount(amount, stack) == Max2(0, Min2(amount, Max2(0, stack)))

\* lines 286-292: check if legal, else fold if legal, else the recommendation
\* itself with its clamped amount
NormDefault(action, amount, actions) ==
    LET available == Available(actions) IN
    IF HasCheck(available) THEN Decision("check", 0)
    ELSE IF HasFold(available) THEN Decision("fold", 0)
    ELSE Decision(action, amount)

\* the branch of a "check" recommendation
NormCheck(action, amount, actions, stack) ==
    LET available == Available(actions) IN
    IF HasCheck(available) THEN Decision("check", 0)
    ELSE IF HasFold(available) THEN Decision("fold", 0)
    ELSE NormDefault(action, amount, actions)

\* the branch of a "call" recommendation
NormCall(action, amount, actions, stack) ==
    LET available == Available(actions) IN
    IF HasCall(available) THEN Decision("call", extract_call_amount(actions))
    ELSE IF HasCheck(available) THEN Decision("check", 0)
    ELSE IF HasFold(available) THEN Decision("fold", 0)
    ELSE NormDefault(action, amount, actions)

\* a plausible slip: check tried before call in the degrade chain
NormRaiseCheckFirst(action, amount, actions, stack) ==
    LET available == Available(actions) IN
    IF HasRaise(available)
    THEN Decision("raise", Min2(Max2(amount, extract_min_raise(actions)), stack))
    ELSE IF HasCheck(available) THEN Decision("check", 0)
    ELSE IF HasCall(available) THEN Decision("call", extract_call_amount(actions))
    ELSE IF HasFold(available) THEN Decision("fold", 0)
    ELSE NormDefault(action, amount, actions)

\* a plausible slip: an unavailable raise is answered by fold at once
NormRaiseElseFold(action, amount, actions, stack) ==
    LET available == Available(actions) IN
    IF HasRaise(available)
    THEN Decision("raise", Min2(Max2(amount, extract_min_raise(actions)), stack))
    ELSE Decision("fold", 0)

\* the branch of a "raise" recommendation
NormRaise(action, amount, actions, stack) ==
    LET available == Available(actions) IN
    IF HasRaise(available)
    THEN Decision("raise", Min2(Max2(amount, extract_min_raise(actions)), stack))
    ELSE IF HasCall(available) THEN Decision("call", extract_call_amount(actions))
    ELSE IF HasCheck(available) THEN Decision("check", 0)
    ELSE IF HasFold(available) THEN Decision("fold", 0)
    ELSE NormDefault(action, amount, actions)

\* a plausible slip: the all_in branch answers "raise" without testing that a
\* raise is legal
NormAllInBlindRaise(action, amount, actions, stack) ==
    LET available == Available(actions) IN
    IF HasAllIn(available) THEN Decision("all_in", stack)
    ELSE Decision("raise", Max2(extract_min_raise(actions), Min2(stack, amount)))

\* the branch of an "all_in" / "all-in" recommendation
NormAllIn(action, amount, actions, stack) ==
    LET available == Available(actions) IN
    IF HasAllIn(available) THEN Decision("all_in", stack)
    ELSE IF HasRaise(available)
    THEN Decision("raise", Max2(extract_min_raise(actions), Min2(stack, amount)))
    ELSE IF HasCall(available) THEN Decision("call", extract_call_amount(actions))
    ELSE IF HasCheck(available) THEN Decision("check", 0)
    ELSE IF HasFold(available) THEN Decision("fold", 0)
    ELSE NormDefault(action, amount, actions)

\* _normalize_recommended_action(recommendation, actions, stack); the action
\* names the callers pass are lower case, on which .lower() changes nothing
normalize_recommended_action(rec, actions, stack) ==
    LET action == rec.action
        amount == ClampAmount(rec.amount, stack)
    IN CASE action = "check" -> NormCheck(action, amount, actions, stack)
         [] action = "call" -> NormCall(action, amount, actions, stack)
         [] action = "raise" -> NormRaise(action, amount, actions, stack)
         [] action \in {"all_in", "all-in"} -> NormAllIn(action, amount, actions, stack)
         [] OTHER -> NormDefault(action, amount, actions)

(***************************************************************************)
(* Cards.  poker.game_models.Card is a value (rank 2..14, suit), equal by  *)
(* rank and suit.  One-character glyph suits are written "{spade}" etc.    *)
(***************************************************************************)
Card(r, s) == [rank |-> r, suit |-> s]

\* Suit enum of poker.game_models, in the order _build_remaining_deck walks it
SuitOrder == <<"HEARTS", "DIAMONDS", "CLUBS", "SPADES">>

Suits == {SuitOrder[i] : i \in 1..Len(SuitOrder)}

\* SUIT_SYMBOL_TO_ENUM keys
SuitSymbols == {"{heart}", "{diamond}", "{club}", "{spade}", "h", "d", "c", "s"}

\* SUIT_SYMBOL_TO_ENUM
SUIT_SYMBOL_TO_ENUM(ch) ==
    IF ch \in {"{heart}", "h"} THEN "HEARTS"
    ELSE IF ch \in {"{diamond}", "d"} THEN "DIAMONDS"
    ELSE IF ch \in {"{club}", "c"} THEN "CLUBS"
    ELSE "SPADES"

\* RANK_NAME_TO_VALUE; 0 stands for "not a key"
RANK_NAME_TO_VALUE(k) ==
    IF k = <<"1", "0">> THEN 10
    ELSE IF Len(k) # 1 THEN 0
    ELSE IF k[1] \in {"2", "3", "4", "5", "6", "7", "8", "9"} THEN DigitVal(k[1])
    ELSE IF k[1] = "t" THEN 10
    ELSE IF k[1] = "j" THEN 11
    ELSE IF k[1] = "q" THEN 12
    ELSE IF k[1] = "k" THEN 13
    ELSE IF k[1] = "a" THEN 14
    ELSE 0

\* str.strip (blanks are the only white space in the inputs)
RECURSIVE Strip(_)
Strip(s) ==
    IF s = <<>> THEN s
    ELSE IF Head(s) = " " THEN Strip(Tail(s))
    ELSE IF s[Len(s)] = " " THEN Strip(SubSeq(s, 1, Len(s) - 1))
    ELSE s

\* s.replace(ch, "")
RECURSIVE RemoveChar(_, _)
RemoveChar(s, ch) ==
    IF s = <<>> THEN <<>>
    ELSE IF Head(s) = ch THEN RemoveChar(Tail(s), ch)
    ELSE <<Head(s)>> \o RemoveChar(Tail(s), ch)

ParseError == [ok |-> FALSE, card |-> Card(0, "NONE")]

Parsed(c) == [ok |-> TRUE, card |-> c]

\* the Card for a rank part and a suit symbol, or the ValueError of line 85
RankAndSuit(rank_part, suit_part) ==
    LET v == RANK_NAME_TO_VALUE(Lower(rank_part))
    IN IF v = 0 THEN ParseError ELSE Parsed(Card(v, SUIT_SYMBOL_TO_ENUM(suit_part)))

\* a plausible slip: a suit symbol found inside the token is not removed from
\* the rank part
parse_card_string_keeps_suit(card_str) ==
    LET s == Strip(card_str) IN
    IF s = <<>> THEN ParseError
    ELSE IF s[Len(s)] \in SuitSymbols
    THEN RankAndSuit(SubSeq(s, 1, Len(s) - 1), s[Len(s)])
    ELSE IF \E i \in 1..Len(s) : s[i] \in SuitSymbols
    THEN LET first == CHOOSE i \in 1..Len(s) :
                         /\ s[i] \in SuitSymbols
                         /\ \A j \in 1..(i - 1) : s[j] \notin SuitSymbols
         IN RankAndSuit(s, s[first])
    ELSE LET v == RANK_NAME_TO_VALUE(Lower(s))
         IN IF v = 0 THEN ParseError ELSE Parsed(Card(v, "SPADES"))

\* _parse_card_string: ParseError stands for the ValueError it raises
parse_card_string(card_str) ==
    LET s == Strip(card_str) IN
    IF s = <<>> THEN ParseError
    ELSE IF s[Len(s)] \in SuitSymbols
    THEN RankAndSuit(SubSeq(s, 1, Len(s) - 1), s[Len(s)])
    ELSE IF \E i \in 1..Len(s) : s[i] \in SuitSymbols
    THEN LET first == CHOOSE i \in 1..Len(s) :
                         /\ s[i] \in SuitSymbols
                         /\ \A j \in 1..(i - 1) : s[j] \notin SuitSymbols
         IN RankAndSuit(RemoveChar(s, s[first]), s[first])
    ELSE LET v == RANK_NAME_TO_VALUE(Lower(s))
         IN IF v = 0 THEN ParseError ELSE Parsed(Card(v, "SPADES"))

\* [_parse_card_string(c) for c in tokens]: all parsed, or the first error
ParseAll(tokens) == [i \in 1..Len(tokens) |-> parse_card_string(tokens[i])]

AllParsed(tokens) == \A i \in 1..Len(tokens) : ParseAll(tokens)[i].ok

CardsOf(tokens) == [i \in 1..Len(tokens) |-> ParseAll(tokens)[i].card]

\* the cards of a list, as a set
Range(l) == {l[i] : i \in 1..Len(l)}

(***************************************************************************)
(* The deck.  The code's deck holds the ranks 2..14 in four suits; the     *)
(* model's deck holds the DeckSize highest of these cards (rank first,     *)
(* then the suits in the order the code walks them).                       *)
(***************************************************************************)
\* number of cards of the model's deck
DeckSize == 12

\* range(2, 15): first rank
RankFirst == 2

\* range(2, 15): one past the highest rank
RankEnd == 15

\* position of a suit in SuitOrder
SuitIndex(s) == CHOOSE i \in 1..Len(SuitOrder) : SuitOrder[i] = s

\* position of a card among the 52, highest rank first
CardIndex(c) == (RankEnd - 1 - c.rank) * Len(SuitOrder) + SuitIndex(c.suit)

\* the cards the deck is built from
DeckCards ==
    {c \in {Card(r, s) : r \in RankFirst..(RankEnd - 1), s \in Suits} :
        CardIndex(c) <= DeckSize}

\* _build_remaining_deck(excluded): the deck without the excluded cards.  The
\* list is shuffled before every use, so only its content is kept.
build_remaining_deck(excluded) == {c \in DeckCards : c \notin Range(excluded)}

(***************************************************************************)
(* Hand evaluation (poker.evaluator.HandEvaluator, pokerkit's              *)
(* StandardHighHand): the best five-card hand of the cards given, as a     *)
(* number that orders hands: category first, then the ranks by             *)
(* multiplicity and rank, high to low.                                     *)
(***************************************************************************)
SetMax(S) == CHOOSE x \in S : \A y \in S : y <= x

SetMin(S) == CHOOSE x \in S : \A y \in S : x <= y

CountRank(cards, r) == Cardinality({c \in cards : c.rank = r})

Pow15(n) ==
    IF n = 0 THEN 1 ELSE IF n = 1 THEN 15 ELSE IF n = 2 THEN 225
    ELSE IF n = 3 THEN 3375 ELSE 50625

\* the ranks ordered by (multiplicity, rank), high to low, as base-15 digits
RECURSIVE TieBreakKey(_, _)
TieBreakKey(cards, ranks) ==
    IF ranks = {} THEN 0
    ELSE LET best == CHOOSE r \in ranks : \A q \in ranks :
                         CountRank(cards, q) * 15 + q <= CountRank(cards, r) * 15 + r
             rest == ranks \ {best}
         IN best * Pow15(Cardinality(rest)) + TieBreakKey(cards, rest)

\* weight of the category in a hand's number: above every tie-break key
CategoryWeight == 1000000

\* a five-card hand: 0 high card, 1 pair, 2 two pair, 3 three of a kind,
\* 4 straight (the wheel ranks as 5 high), 5 flush, 6 full house, 7 four of a
\* kind, 8 straight flush
EvaluateFive(cards) ==
    LET ranks == {c.rank : c \in cards}
        n == Cardinality(ranks)
        mult == SetMax({CountRank(cards, r) : r \in ranks})
        flush == Cardinality({c.suit : c \in cards}) = 1
        wheel == ranks = {14, 2, 3, 4, 5}
        straight == n = 5 /\ (SetMax(ranks) - SetMin(ranks) = 4 \/ wheel)
        cat == IF straight /\ flush THEN 8
               ELSE IF mult = 4 THEN 7
               ELSE IF n = 2 THEN 6
               ELSE IF flush THEN 5
               ELSE IF straight THEN 4
               ELSE IF mult = 3 THEN 3
               ELSE IF n = 3 THEN 2
               ELSE IF n = 4 THEN 1
               ELSE 0
        key == IF straight THEN (IF wheel THEN 5 ELSE SetMax(ranks))
               ELSE TieBreakKey(cards, ranks)
    IN cat * CategoryWeight + key

\* HandEvaluator.evaluate_hand(hole_cards, community_cards): the maximum over the five-card
\* subsets; -1 when fewer than five distinct cards are given
evaluate_hand(hole_cards, community_cards) ==
    LET cards == Range(hole_cards) \cup Range(community_cards)
        n == Cardinality(cards)
        fives == IF n = 5 THEN {cards}
                 ELSE IF n = 6 THEN {cards \ {a} : a \in cards}
                 ELSE IF n = 7 THEN {cards \ {a, b} : a, b \in cards} \ {cards \ {a} : a \in cards}
                 ELSE {T \in SUBSET cards : Cardinality(T) = 5}
    IN IF fives = {} THEN -1 ELSE SetMax({EvaluateFive(T) : T \in fives})

\* HandEvaluator.compare_hands(a, b): 1, 0 or -1
compare_hands(a, b) == IF a > b THEN 1 ELSE IF a < b THEN -1 ELSE 0

(***************************************************************************)
(* calc_gto.py: the policy of calc_gto (lines 351-410).  An equity is the  *)
(* fraction en/ed (ed > 0); pot odds and thresholds are compared as exact  *)
(* fractions, amounts are floored as int() floors them.                    *)
(***************************************************************************)
\* int(x) for the fraction num/den, den > 0: truncation towards zero
Floor(num, den) == IF num >= 0 THEN num \div den ELSE -((-num) \div den)

\* a ratio not computed yet
NoRatio == <<0, 0>>

\* float("inf")
Infinity == <<1, 0>>

\* a plausible slip: the amount to call is left out of the divisor
PotOddsOverPot(pot, to_call) ==
    IF to_call <= 0 THEN <<0, 1>> ELSE <<to_call, Max2(1, pot)>>

\* pot_odds = 0.0 if to_call <= 0 else to_call / max(1, pot + to_call),
\* as <<numerator, denominator>>
PotOdds(pot, to_call) ==
    IF to_call <= 0 THEN <<0, 1>> ELSE <<to_call, Max2(1, pot + to_call)>>

\* spr = float("inf") if pot <= 0 else stack / max(1, pot)
Spr(pot, stack) == IF pot <= 0 THEN Infinity ELSE <<stack, Max2(1, pot)>>

\* spr <= 2.0
SprAtMostTwo(pot, stack) == pot > 0 /\ stack <= 2 * Max2(1, pot)

\* the strategy dict, weights in hundredths
Strategy(f, ch, ca, r, ai) ==
    [fold |-> f, check |-> ch, call |-> ca, raise |-> r, all_in |-> ai]

\* any("raise" in str(a).lower() for a in actions), and the like
AnyContains(actions, w) == \E i \in 1..Len(actions) : Contains(Lower(actions[i]), w)

\* max(min_raise, int(frac * base)) if min_raise > 0 else int(frac * base),
\* then min(., stack); frac = fn/fd
SizedBet(actions, fn, fd, base, stack) ==
    LET min_raise == extract_min_raise(actions)
        raw == Floor(fn * base, fd)
    IN Min2(IF min_raise > 0 THEN Max2(min_raise, raw) ELSE raw, stack)

\* the branch to_call == 0
PolicyNoPressure(en, ed, pot, actions, stack) ==
    IF 20 * en >= 13 * ed
    THEN [rec |-> Decision("raise", SizedBet(actions, 6, 10, pot + 1, stack)),
          strategy |-> Strategy(0, 25, 0, 65, 10)]
    ELSE IF 2 * en >= ed
    THEN [rec |-> IF AnyContains(actions, W_raise)
                  THEN Decision("raise", SizedBet(actions, 4, 10, pot + 1, stack))
                  ELSE Decision("check", 0),
          strategy |-> Strategy(0, 70, 0, 30, 0)]
    ELSE [rec |-> Decision("check", 0), strategy |-> Strategy(0, 95, 0, 5, 0)]

\* the branch to_call != 0 with equity > max(pot_odds + 0.05, 0.5)
PolicyContinue(en, ed, pot, to_call, actions, stack) ==
    LET po == PotOdds(pot, to_call)
        extracted == extract_call_amount(actions)
        call_amt == IF extracted # 0 THEN extracted ELSE to_call
        base == IF to_call # 0 THEN to_call ELSE call_amt
    IN IF 10 * en >= 7 * ed \/ SprAtMostTwo(pot, stack)
       THEN IF AnyContains(actions, W_allin)
            THEN [rec |-> Decision("all_in", stack), strategy |-> Strategy(0, 0, 20, 30, 50)]
            ELSE [rec |-> Decision("raise", SizedBet(actions, 5, 2, base, stack)),
                  strategy |-> Strategy(0, 0, 30, 70, 0)]
       ELSE LET raw == Max2(extract_min_raise(actions), Floor(3 * base, 2))
                raise_amt == IF raw > 0 THEN Min2(raw, stack) ELSE 0
            IN [rec |-> IF /\ raise_amt > 0
                           /\ AnyContains(actions, W_raise)
                           \* equity - pot_odds > 0.15
                           /\ 20 * (en * po[2] - po[1] * ed) > 3 * ed * po[2]
                        THEN Decision("raise", raise_amt)
                        ELSE Decision("call", IF call_amt > 0 THEN call_amt ELSE to_call),
                strategy |-> Strategy(0, 0, 80, 20, 0)]

\* a plausible slip: the safety margin typed as 0.5 instead of 0.05
PolicyFacingBetWideMargin(en, ed, pot, to_call, actions, stack) ==
    LET po == PotOdds(pot, to_call)
        diff == en * po[2] - po[1] * ed
        absdiff == IF diff >= 0 THEN diff ELSE -diff
        extracted == extract_call_amount(actions)
    IN IF /\ 2 * diff > ed * po[2]
          /\ 2 * en > ed
       THEN PolicyContinue(en, ed, pot, to_call, actions, stack)
       ELSE IF /\ 100 * absdiff <= 3 * ed * po[2]
               /\ AnyContains(actions, W_call)
       THEN [rec |-> Decision("call", IF extracted # 0 THEN extracted ELSE to_call),
             strategy |-> Strategy(50, 0, 50, 0, 0)]
       ELSE [rec |-> Decision("fold", 0), strategy |-> Strategy(95, 0, 5, 0, 0)]

\* the branch to_call != 0
PolicyFacingBet(en, ed, pot, to_call, actions, stack) ==
    LET po == PotOdds(pot, to_call)
        diff == en * po[2] - po[1] * ed
        absdiff == IF diff >= 0 THEN diff ELSE -diff
        extracted == extract_call_amount(actions)
    IN IF \* equity > pot_odds + 0.05 and equity > 0.5
          /\ 20 * diff > ed * po[2]
          /\ 2 * en > ed
       THEN PolicyContinue(en, ed, pot, to_call, actions, stack)
       ELSE IF \* abs(equity - pot_odds) <= 0.03
               /\ 100 * absdiff <= 3 * ed * po[2]
               /\ AnyContains(actions, W_call)
       THEN [rec |-> Decision("call", IF extracted # 0 THEN extracted ELSE to_call),
             strategy |-> Strategy(50, 0, 50, 0, 0)]
       ELSE [rec |-> Decision("fold", 0), strategy |-> Strategy(95, 0, 5, 0, 0)]

\* lines 355-410: the recommendation and the strategy before normalisation
Policy(en, ed, pot, to_call, actions, stack) ==
    IF to_call = 0 THEN PolicyNoPressure(en, ed, pot, actions, stack)
    ELSE PolicyFacingBet(en, ed, pot, to_call, actions, stack)

ActionNames == {"fold", "check", "call", "raise", "all_in"}

\* a plausible slip: the zero weights are not dropped
NormalizedStrategyKeepZeros(strategy) ==
    LET sum == strategy.fold + strategy.check + strategy.call
                 + strategy.raise + strategy.all_in
        total == IF sum = 0 THEN 100 ELSE sum
    IN [k \in ActionNames |-> (2000 * strategy[k] + total) \div (2 * total)]

\* lines 420-422: the positive weights, each divided by their total and
\* rounded to three places; in thousandths
NormalizedStrategy(strategy) ==
    LET positive == {k \in ActionNames : strategy[k] > 0}
        sum == strategy.fold + strategy.check + strategy.call
                 + strategy.raise + strategy.all_in
        total == IF sum = 0 THEN 100 ELSE sum
    IN [k \in positive |-> (2000 * strategy[k] + total) \div (2 * total)]

\* a plausible slip: the safe default ignores to_call
SafeActionAlwaysFold(to_call) == Decision("fold", 0)

\* lines 338-344: the safe default after a parse failure
SafeAction(to_call) == Decision(IF to_call = 0 THEN "check" ELSE "fold", 0)

(***************************************************************************)
(* Inputs of the entry points: card tokens, players, contexts.             *)
(***************************************************************************)
T_As == <<"A", "s">>

T_Ah == <<"A", "h">>

T_Ad == <<"A", "d">>

T_Ac == <<"A", "c">>

T_Ks == <<"K", "s">>

T_Kh == <<"K", "h">>

T_Kd == <<"K", "d">>

T_Kc == <<"K", "c">>

T_Qs == <<"Q", "s">>

T_Qh == <<"Q", "h">>

T_Qd == <<"Q", "d">>

T_Qc == <<"Q", "c">>

\* "A" followed by the spade glyph
T_AGlyph == <<"A", "{spade}">>

\* a bare rank, no suit
T_K == <<"K">>

\* not a card
T_Xx == <<"X", "x">>

\* not a card
T_1z == <<"1", "z">>

River == <<T_Ah, T_Kh, T_Qd, T_Qc, T_Qs>>

Scenario(h, c, p) == [hole |-> h, comm |-> c, players |-> p]

Scenarios ==
    { \* the board plays: a three-way tie for best is possible
      Scenario(<<T_Qs, T_Qh>>, <<T_Ah, T_Ad, T_Ac, T_Kh, T_Kd>>, 3),
      \* two cards to come, one opponent
      Scenario(<<T_As, T_Ks>>, <<T_Qh, T_Qd, T_Kc>>, 2),
      \* one card to come, one opponent
      Scenario(<<T_As, T_Kd>>, <<T_Ah, T_Kh, T_Qd, T_Qc>>, 2),
      \* the same card twice
      Scenario(<<T_As, T_As>>, <<T_Kh, T_Kd, T_Qc, T_Qd, T_Ah>>, 2),
      \* a hole token that is no card
      Scenario(<<T_Xx, T_As>>, <<>>, 2),
      \* a community token that is no card
      Scenario(<<T_As, T_Kd>>, <<T_Ah, T_Kh, T_1z>>, 2),
      \* more opponents than the deck can serve
      Scenario(<<T_As, T_Kd>>, River, 7),
      \* six community cards
      Scenario(<<T_As, T_Kd>>, <<T_Ah, T_Kh, T_Qd, T_Qc, T_Qs, T_Qh>>, 2),
      \* the suit letter before the rank
      Scenario(<< <<"s", "A">>, T_Kd >>, River, 2),
      \* a bare rank and a glyph suit
      Scenario(<<T_K, T_AGlyph>>, River, 2),
      \* one hole card
      Scenario(<<T_As>>, River, 2),
      \* no opponent
      Scenario(<<T_As, T_Kd>>, River, 1) }

\* "all-in (1000)"
A_allin1000 == W_allin \o <<" ", "(", "1", "0", "0", "0", ")">>

CtxActionLists ==
    { <<W_fold, A_call20, A_raise40>>,
      <<W_fold, A_call20, A_raise40, A_allin1000>>,
      <<W_check, A_bet10, A_allin1000>>,
      <<W_check, A_raise40>>,
      <<W_fold, A_call20>>,
      <<A_call20, A_raise40>> }

Contexts == [pot : {-50, 0, 30, 100}, to_call : {0, 20}, actions : CtxActionLists,
             stack : {30, 1000}]

NoContext == [pot |-> 0, to_call |-> 0, actions |-> <<>>, stack |-> 0]

(***************************************************************************)
(* Results and per-trial records.                                          *)
(***************************************************************************)
NoResult == [kind |-> "none"]

\* tool_context.state without an "equity_cache" key
NoCache == [present |-> FALSE, entries |-> <<>>]

\* calc_gto's return value: the normalised recommendation, the equity en/ed,
\* the normalised strategy, and whether it is the parse-failure default
DecisionResult(d, en, ed, strat, fb) ==
    [kind |-> "decision", action |-> d.action, amount |-> d.amount,
     en |-> en, ed |-> ed, strategy |-> strat, fallback |-> fb]

\* pokerkit_tool's equity
EquityResult(en, ed) == [kind |-> "equity", en |-> en, ed |-> ed]

\* an exception leaving the entry point
ErrorResult(e) == [kind |-> "error", error |-> e]

NoTrial == [scored |-> FALSE, hero_best |-> FALSE, winners |-> 0, cn |-> 0, cd |-> 1]

\* a scored trial: whether the hero's hand is among the best of all hands,
\* how many hands are, and the credit cn/cd the code gave the hero
TrialRecord(scores, cn, cd) ==
    LET best == SetMax(Range(scores))
    IN [scored |-> TRUE,
        hero_best |-> scores[1] = best,
        winners |-> Cardinality({i \in 1..Len(scores) : scores[i] = best}),
        cn |-> cn, cd |-> cd]

\* most orderings of one draw that are all explored
MaxOrderedDraws == 400

\* most calls one process makes
MaxCalls == 3

\* n * (n - 1) * ... * (n - k + 1): the ordered draws of k cards out of n
RECURSIVE Orderings(_, _)
Orderings(n, k) == IF k = 0 THEN 1 ELSE n * Orderings(n - 1, k - 1)

\* ordered draws of k distinct cards; where there are more than
\* MaxOrderedDraws of them, one order per set of drawn cards (the deck's)
Draws(deck, k) ==
    {d \in [1..k -> deck] :
        /\ Injective(d)
        /\ Orderings(Cardinality(deck), k) > MaxOrderedDraws =>
               \A i \in 1..(k - 1) : CardIndex(d[i]) < CardIndex(d[i + 1])}

\* opponents.append([draw[2 * i], draw[2 * i + 1]])
PairUp(draw, n) == [i \in 1..n |-> <<draw[2 * i - 1], draw[2 * i]>>]

\* the hero's hand and every opponent's, evaluated on the board
Scores(h, opps, b) ==
    <<evaluate_hand(h, b)>> \o [i \in 1..Len(opps) |-> evaluate_hand(opps[i], b)]

IdleNorm ==
    /\ n_pc = "idle"
    /\ n_rec = NoDecision
    /\ n_actions = <<>>
    /\ n_stack = 0
    /\ n_out = NoDecision

IdleSim ==
    /\ impl = "none"
    /\ pc = "idle"
    /\ in_hole = <<>>
    /\ in_comm = <<>>
    /\ in_players = 0
    /\ in_iters = 0
    /\ ctx = NoContext
    /\ recommendation = NoDecision
    /\ pot_odds = NoRatio
    /\ spr = NoRatio
    /\ hole = <<>>
    /\ board = <<>>
    /\ num_opponents = 0
    /\ simulated = FALSE
    /\ it = 0
    /\ wins = 0
    /\ ties = 0
    /\ trials = 0
    /\ share = 0
    /\ opponents = <<>>
    /\ deck_after_opps = {}
    /\ final_board = <<>>
    /\ last = NoTrial
    /\ result = NoResult
    /\ random_state = 0
    /\ tool_state = NoCache
    /\ calls = <<>>

Init ==
    /\ IdleNorm
    /\ pc = "start"
    /\ \/ /\ impl \in {"team1", "team4"}
          /\ \E sc \in Scenarios :
                /\ in_hole = sc.hole
                /\ in_comm = sc.comm
                /\ in_players = sc.players
          /\ in_iters \in 0..MaxIter
       \/ /\ impl = "team3_hand_strength"
          /\ \E sc \in Scenarios :
                /\ in_hole = sc.hole
                /\ in_comm = sc.comm
          /\ in_players = 0
          /\ in_iters = 0
       \/ /\ impl \in {"team2_pot_odds", "team3_pot_odds", "team3_integrator",
                       "team2_integrator", "team2_equity_fast"}
          /\ in_hole = <<>>
          /\ in_comm = <<>>
          /\ in_players = 0
          /\ in_iters = 0
    /\ ctx = NoContext
    /\ recommendation = NoDecision
    /\ pot_odds = NoRatio
    /\ spr = NoRatio
    /\ hole = <<>>
    /\ board = <<>>
    /\ num_opponents = 0
    /\ simulated = FALSE
    /\ it = 0
    /\ wins = 0
    /\ ties = 0
    /\ trials = 0
    /\ share = 0
    /\ opponents = <<>>
    /\ deck_after_opps = {}
    /\ final_board = <<>>
    /\ last = NoTrial
    /\ result = NoResult
    /\ random_state = 0
    /\ tool_state = NoCache
    /\ calls = <<>>

inputs == <<in_hole, in_comm, in_players, in_iters, impl>>

(***************************************************************************)
(* team1: calc_gto and _estimate_equity.                                   *)
(***************************************************************************)
\* remaining = _build_remaining_deck(list(hole_cards) + list(community_cards))
Remaining == build_remaining_deck(hole \o board)

\* a plausible slip: range(iterations), without the floor at one
LoopBoundNoFloor == in_iters

\* range(max(1, iterations))
LoopBound == Max2(1, in_iters)

\* calc_gto, lines 332-346: a token does not parse; the safe default is
\* normalised and returned, the simulation is not entered
G_Fallback ==
    /\ impl = "team1"
    /\ pc = "start"
    /\ ~(AllParsed(in_hole) /\ AllParsed(in_comm))
    /\ \E c \in Contexts :
          /\ ctx' = c
          /\ recommendation' = SafeAction(c.to_call)
          \* lines 341-342: the fallback's own pot odds and SPR
          /\ pot_odds' = IF c.to_call = 0 THEN <<0, 1>>
                         ELSE <<c.to_call, Max2(1, c.pot + c.to_call)>>
          /\ spr' = IF c.pot = 0 THEN Infinity ELSE <<c.stack, Max2(1, c.pot)>>
          /\ result' = DecisionResult(
                 normalize_recommended_action(SafeAction(c.to_call), c.actions, c.stack),
                 0, 1, NormalizedStrategy([k \in ActionNames |->
                           IF k = SafeAction(c.to_call).action THEN 100 ELSE 0]), TRUE)
    /\ pc' = "done"
    /\ UNCHANGED <<inputs, hole, board, num_opponents, simulated, it, wins, ties,
                   trials, share, opponents, deck_after_opps, final_board, last>>
    /\ UNCHANGED nvars
    /\ UNCHANGED kept

\* calc_gto, lines 334-349 and _estimate_equity, lines 159-167: the tokens
\* parse; the simulation is entered
G_Start ==
    /\ impl = "team1"
    /\ pc = "start"
    /\ AllParsed(in_hole) /\ AllParsed(in_comm)
    /\ hole' = CardsOf(in_hole)
    /\ board' = CardsOf(in_comm)
    /\ num_opponents' = Max2(1, in_players - 1)
    /\ simulated' = TRUE
    /\ pc' = "loop"
    \* if len(hole_cards) != 2: return 0.0  -- the loop is not run
    /\ it' = IF Len(in_hole) # 2 THEN LoopBound ELSE 0
    /\ UNCHANGED <<inputs, ctx, recommendation, pot_odds, spr, wins, ties, trials, share, opponents,
                   deck_after_opps, final_board, last, result>>
    /\ UNCHANGED nvars
    /\ UNCHANGED kept

\* _sample_opponents_hands, and the "continue" of line 173 when it returns
\* no hands
G_SampleOpponents ==
    /\ impl = "team1"
    /\ pc = "loop"
    /\ it < LoopBound
    /\ LET needed == 2 * num_opponents IN
       IF needed > Cardinality(Remaining)
       THEN /\ it' = it + 1
            /\ UNCHANGED <<pc, opponents, deck_after_opps>>
       ELSE \E draw \in Draws(Remaining, needed) :
               /\ opponents' = PairUp(draw, num_opponents)
               /\ deck_after_opps' = Remaining \ Range(draw)
               /\ pc' = "board"
               /\ it' = it
    /\ last' = NoTrial
    /\ UNCHANGED <<inputs, ctx, recommendation, pot_odds, spr, hole, board, num_opponents, simulated, wins, ties,
                   trials, share, final_board, result>>
    /\ UNCHANGED nvars
    \* line 135: random.shuffle(deck_copy)
    /\ random_state' = random_state + 1
    /\ UNCHANGED <<tool_state, calls>>

\* a plausible slip: the board is completed from the deck before the
\* opponents' cards were removed
BoardDeckWhole(remaining, after_opps) == remaining

\* line 175: the deck handed to _complete_board_randomly
BoardDeck(remaining, after_opps) == after_opps

\* _complete_board_randomly, and the "continue" of line 177 when the board
\* does not come to five cards
G_CompleteBoard ==
    /\ impl = "team1"
    /\ pc = "board"
    /\ LET deck == BoardDeck(Remaining, deck_after_opps)
           need == 5 - Len(board)
       IN \E add \in (IF need <= 0 \/ need > Cardinality(deck)
                      THEN {<<>>} ELSE Draws(deck, need)) :
             IF Len(board \o add) # 5
             THEN /\ it' = it + 1
                  /\ pc' = "loop"
                  /\ opponents' = <<>>
                  /\ deck_after_opps' = {}
                  /\ UNCHANGED final_board
             ELSE /\ final_board' = board \o add
                  /\ pc' = "score"
                  /\ UNCHANGED <<it, opponents, deck_after_opps>>
    /\ UNCHANGED <<inputs, ctx, recommendation, pot_odds, spr, hole, board, num_opponents, simulated, wins, ties,
                   trials, share, last, result>>
    /\ UNCHANGED nvars
    \* line 117: random.shuffle(deck_copy), after the early returns
    /\ random_state' = IF 0 < 5 - Len(board)
                           /\ 5 - Len(board) <= Cardinality(BoardDeck(Remaining, deck_after_opps))
                        THEN random_state + 1 ELSE random_state
    /\ UNCHANGED <<tool_state, calls>>

\* outcome_flags: compare_hands(my_best, opp_best) per opponent
OutcomeFlags(scores) ==
    [i \in 1..(Len(scores) - 1) |-> compare_hands(scores[1], scores[i + 1])]

\* line 188: all(flag == 1 for flag in outcome_flags)
WinsDelta(flags) == IF \A i \in 1..Len(flags) : flags[i] = 1 THEN 1 ELSE 0

\* a plausible slip: the tie test without "any(flag == 0)" and without the
\* elif, so that a win also counts as a tie
TiesDeltaNoElif(flags) == IF \A i \in 1..Len(flags) : flags[i] >= 0 THEN 1 ELSE 0

\* lines 190-191: elif all(flag >= 0) and any(flag == 0)
TiesDelta(flags) ==
    IF \A i \in 1..Len(flags) : flags[i] = 1 THEN 0
    ELSE IF /\ \A i \in 1..Len(flags) : flags[i] >= 0
            /\ \E i \in 1..Len(flags) : flags[i] = 0
    THEN 1 ELSE 0

\* lines 179-192: the showdown of one trial
G_Score ==
    /\ impl = "team1"
    /\ pc = "score"
    /\ \E scores \in {Scores(hole, opponents, final_board)} :
       \E flags \in {OutcomeFlags(scores)} :
          /\ wins' = wins + WinsDelta(flags)
          /\ ties' = ties + TiesDelta(flags)
          \* the credit of this trial in the returned equity: 1 per win, 0.5 per tie
          /\ last' = TrialRecord(scores, 2 * WinsDelta(flags) + TiesDelta(flags), 2)
    /\ trials' = trials + 1
    /\ it' = it + 1
    /\ pc' = "loop"
    /\ opponents' = <<>>
    /\ deck_after_opps' = {}
    /\ final_board' = <<>>
    /\ UNCHANGED <<inputs, ctx, recommendation, pot_odds, spr, hole, board, num_opponents, simulated, share, result>>
    /\ UNCHANGED nvars
    /\ UNCHANGED kept

\* lines 194-198: the equity _estimate_equity returns, as <<en, ed>>
Team1Equity == IF trials = 0 THEN <<0, 1>> ELSE <<2 * wins + ties, 2 * trials>>

\* calc_gto, lines 351-431: policy, normalisation, return
G_Finish ==
    /\ impl = "team1"
    /\ pc = "loop"
    /\ it >= LoopBound
    /\ \E c \in Contexts :
          LET eq == Team1Equity
              p == Policy(eq[1], eq[2], c.pot, c.to_call, c.actions, c.stack)
          IN /\ ctx' = c
             /\ recommendation' = p.rec
             /\ pot_odds' = PotOdds(c.pot, c.to_call)
             /\ spr' = Spr(c.pot, c.stack)
             /\ result' = DecisionResult(
                    normalize_recommended_action(p.rec, c.actions, c.stack),
                    eq[1], eq[2], NormalizedStrategy(p.strategy), FALSE)
    /\ pc' = "done"
    /\ last' = NoTrial
    /\ UNCHANGED <<inputs, hole, board, num_opponents, simulated, it, wins, ties,
                   trials, share, opponents, deck_after_opps, final_board>>
    /\ UNCHANGED nvars
    /\ UNCHANGED kept

(***************************************************************************)
(* team4: pokerkit_tool.                                                   *)
(***************************************************************************)
\* "".join(tokens)
RECURSIVE Join(_)
Join(tokens) == IF tokens = <<>> THEN <<>> ELSE Head(tokens) \o Join(Tail(tokens))

PkRankChars == {"2", "3", "4", "5", "6", "7", "8", "9", "T", "J", "Q", "K", "A"}

PkSuitChars == {"c", "d", "h", "s"}

\* pokerkit's Card.parse accepts a string of rank-suit pairs
PkParses(str) ==
    /\ Len(str) % 2 = 0
    /\ \A i \in 1..(Len(str) \div 2) :
          str[2 * i - 1] \in PkRankChars /\ str[2 * i] \in PkSuitChars

\* the cards of a string PkParses accepts
PkCards(str) ==
    [i \in 1..(Len(str) \div 2) |->
        Card(RANK_NAME_TO_VALUE(<<LowerChar(str[2 * i - 1])>>),
             SUIT_SYMBOL_TO_ENUM(str[2 * i]))]

\* lines 83-100: the ValueError pokerkit_tool raises on its arguments, or "none"
Team4Rejects(hole_cards, community_cards, n) ==
    IF Len(hole_cards) # 2 THEN "hole_count"
    ELSE IF Len(community_cards) \notin {0, 3, 4, 5} THEN "board_count"
    ELSE IF n < 1 THEN "opponent_count"
    ELSE IF ~Injective(hole_cards \o community_cards) THEN "duplicate"
    ELSE IF ~PkParses(Join(hole_cards \o community_cards)) THEN "card_format"
    ELSE "none"

\* draw_needed = 2 * num_opponents + max(0, board_needed)
DrawNeeded == 2 * num_opponents + Max2(0, 5 - Len(board))

RECURSIVE Factorial(_)
Factorial(n) == IF n <= 1 THEN 1 ELSE n * Factorial(n - 1)

\* hero_share_sum is kept in units of 1/ShareUnit, which every 1/winners
\* is a multiple of
ShareUnit == Factorial(num_opponents + 1)

\* validation fails: ValueError
K_Reject ==
    /\ impl = "team4"
    /\ pc = "start"
    /\ Team4Rejects(in_hole, in_comm, in_players - 1) # "none"
    /\ result' = ErrorResult(Team4Rejects(in_hole, in_comm, in_players - 1))
    /\ pc' = "done"
    /\ UNCHANGED <<inputs, ctx, recommendation, pot_odds, spr, hole, board, num_opponents, simulated, it, wins,
                   ties, trials, share, opponents, deck_after_opps, final_board, last>>
    /\ UNCHANGED nvars
    /\ UNCHANGED kept

\* lines 80-106: validation passes, the deck is built
K_Start ==
    /\ impl = "team4"
    /\ pc = "start"
    /\ Team4Rejects(in_hole, in_comm, in_players - 1) = "none"
    /\ hole' = PkCards(Join(in_hole))
    /\ board' = PkCards(Join(in_comm))
    /\ num_opponents' = in_players - 1
    /\ simulated' = TRUE
    /\ pc' = "loop"
    /\ UNCHANGED <<inputs, ctx, recommendation, pot_odds, spr, it, wins, ties, trials, share, opponents,
                   deck_after_opps, final_board, last, result>>
    /\ UNCHANGED nvars
    /\ UNCHANGED kept

\* line 110: random.sample raises ValueError when the deck is too small
K_SampleFails ==
    /\ impl = "team4"
    /\ pc = "loop"
    /\ it < in_iters
    /\ DrawNeeded > Cardinality(Remaining)
    /\ result' = ErrorResult("sample_larger_than_population")
    /\ pc' = "done"
    /\ last' = NoTrial
    /\ UNCHANGED <<inputs, ctx, recommendation, pot_odds, spr, hole, board, num_opponents, simulated, it, wins,
                   ties, trials, share, opponents, deck_after_opps, final_board>>
    /\ UNCHANGED nvars
    /\ UNCHANGED kept

\* lines 110-117: one sample serves the opponents' hands and the board
K_Sample ==
    /\ impl = "team4"
    /\ pc = "loop"
    /\ it < in_iters
    /\ DrawNeeded <= Cardinality(Remaining)
    /\ \E draw \in Draws(Remaining, DrawNeeded) :
          /\ opponents' = PairUp(draw, num_opponents)
          /\ final_board' = board \o SubSeq(draw, 2 * num_opponents + 1, DrawNeeded)
    /\ pc' = "score"
    /\ last' = NoTrial
    /\ UNCHANGED <<inputs, ctx, recommendation, pot_odds, spr, hole, board, num_opponents, simulated, it, wins,
                   ties, trials, share, deck_after_opps, result>>
    /\ UNCHANGED nvars
    \* line 110: random.sample(deck_remain, draw_needed)
    /\ random_state' = random_state + 1
    /\ UNCHANGED <<tool_state, calls>>

\* lines 127-131: the hero's share of this trial, in units of 1/unit
ShareDelta(scores, unit) ==
    LET best_hand == SetMax(Range(scores))
        winners == Cardinality({i \in 1..Len(scores) : scores[i] = best_hand})
    IN IF scores[1] = best_hand THEN unit \div winners ELSE 0

\* lines 119-131: the showdown of one trial
K_Score ==
    /\ impl = "team4"
    /\ pc = "score"
    /\ \E scores \in {Scores(hole, opponents, final_board)} :
          /\ share' = share + ShareDelta(scores, ShareUnit)
          /\ last' = TrialRecord(scores, ShareDelta(scores, ShareUnit), ShareUnit)
    /\ it' = it + 1
    /\ pc' = "loop"
    /\ opponents' = <<>>
    /\ final_board' = <<>>
    /\ UNCHANGED <<inputs, ctx, recommendation, pot_odds, spr, hole, board, num_opponents, simulated, wins, ties,
                   trials, deck_after_opps, result>>
    /\ UNCHANGED nvars
    /\ UNCHANGED kept

\* line 133: equity = hero_share_sum / simulations, a ZeroDivisionError when
\* simulations is 0
K_Finish ==
    /\ impl = "team4"
    /\ pc = "loop"
    /\ it >= in_iters
    /\ result' = IF in_iters = 0 THEN ErrorResult("zero_division")
                 ELSE EquityResult(share, in_iters * ShareUnit)
    /\ pc' = "done"
    /\ last' = NoTrial
    /\ UNCHANGED <<inputs, ctx, recommendation, pot_odds, spr, hole, board, num_opponents, simulated, it, wins,
                   ties, trials, share, opponents, deck_after_opps, final_board>>
    /\ UNCHANGED nvars
    /\ UNCHANGED kept

(***************************************************************************)
(* The pot-odds tools: team2 pot_odds_calculator_agent/tool.py and team3   *)
(* tools/pot_odds_calculator.py.  Floats are exact fractions               *)
(* <<numerator, denominator>>.                                             *)
(***************************************************************************)
\* arguments of the tools: pot, amount to call, stack, equity
ToolInputs == [pot : {-50, 0, 30, 100}, to_call : {-5, 0, 20},
               stack : {0, 30, 1000}, equity : {<<0, 1>>, <<3, 10>>, <<1, 1>>}]

\* team2 calculate_pot_odds(pot_size, call_amount, equity): the tuple
\* (expected_value, required_equity, reverse_expected_value,
\* implied_multiplier), or the ZeroDivisionError of line 30
team2_calculate_pot_odds(pot_size, call_amount, equity) ==
    LET total_pot_after_call == pot_size + call_amount
        expected_value == <<equity[1] * total_pot_after_call - call_amount * equity[2],
                            equity[2]>>
    IN IF total_pot_after_call = 0 THEN ErrorResult("zero_division")
       ELSE [kind |-> "pot_odds_ev",
             expected_value |-> expected_value,
             required_equity |-> <<call_amount, total_pot_after_call>>,
             reverse_expected_value |-> expected_value,
             \* basic_pot_odds / implied_pot_odds of equal values, or 1.0
             implied_multiplier |-> <<1, 1>>]

P2_CalculatePotOdds ==
    /\ impl = "team2_pot_odds"
    /\ pc = "start"
    /\ \E a \in ToolInputs :
          /\ ctx' = [pot |-> a.pot, to_call |-> a.to_call, actions |-> <<>>,
                     stack |-> a.stack]
          /\ result' = team2_calculate_pot_odds(a.pot, a.to_call, a.equity)
    /\ pc' = "done"
    /\ UNCHANGED <<inputs, recommendation, pot_odds, spr, hole, board, num_opponents,
                   simulated, it, wins, ties, trials, share, opponents,
                   deck_after_opps, final_board, last>>
    /\ UNCHANGED nvars
    /\ UNCHANGED kept

\* line 39: the value returned for an infinite SPR
SprSentinel == 999

\* team3 calculate_pot_odds, lines 29-41, on the parsed state: pot_odds, spr
team3_calculate_pot_odds(pot, to_call, eff_stack) ==
    LET pot_after_call == pot + to_call
    IN [pot_odds |-> IF pot_after_call > 0 /\ to_call > 0
                     THEN <<to_call, pot_after_call>> ELSE <<0, 1>>,
        spr |-> IF pot_after_call > 0 THEN <<eff_stack, pot_after_call>>
                ELSE <<SprSentinel, 1>>]

P3_CalculatePotOdds ==
    /\ impl = "team3_pot_odds"
    /\ pc = "start"
    /\ \E a \in ToolInputs :
          LET r == team3_calculate_pot_odds(a.pot, a.to_call, a.stack)
          IN /\ ctx' = [pot |-> a.pot, to_call |-> a.to_call, actions |-> <<>>,
                        stack |-> a.stack]
             /\ pot_odds' = r.pot_odds
             /\ spr' = r.spr
             /\ result' = [kind |-> "pot_odds_spr", pot_odds |-> r.pot_odds,
                           spr |-> r.spr]
    /\ pc' = "done"
    /\ UNCHANGED <<inputs, recommendation, hole, board, num_opponents,
                   simulated, it, wins, ties, trials, share, opponents,
                   deck_after_opps, final_board, last>>
    /\ UNCHANGED nvars
    /\ UNCHANGED kept

(***************************************************************************)
(* team2: victory_calculation_agent/tool_optimized.py.  Strengths are in   *)
(* hundredths, the equity is an exact fraction; the categories carry       *)
(* English names.                                                          *)
(***************************************************************************)
\* sep.join(tokens)
RECURSIVE JoinWith(_, _)
JoinWith(tokens, sep) ==
    IF tokens = <<>> THEN <<>>
    ELSE IF Len(tokens) = 1 THEN tokens[1]
    ELSE tokens[1] \o sep \o JoinWith(Tail(tokens), sep)

\* _parse_card_fast, lines 215-222: <<value, suit>>
parse_card_fast(card) ==
    IF Len(card) >= 2
    THEN IF StartsWith(card, <<"1", "0">>) THEN << <<"1", "0">>, From(card, 2) >>
         ELSE << SubSeq(card, 1, Len(card) - 1), <<card[Len(card)]>> >>
    ELSE << <<"7">>, <<"{spade}">> >>

\* card_values.get(value, 7), lines 70-73 and 140-143
fast_card_value(value) ==
    IF value = <<"1", "0">> THEN 10
    ELSE IF Len(value) = 1 /\ value[1] \in DigitChars \ {"0", "1"} THEN DigitVal(value[1])
    ELSE IF value = <<"J">> THEN 11
    ELSE IF value = <<"Q">> THEN 12
    ELSE IF value = <<"K">> THEN 13
    ELSE IF value = <<"A">> THEN 14
    ELSE 7

\* _check_straight_fast, lines 225-240, on the list of values
check_straight_fast(values) ==
    LET unique_values == Range(values)
    IN /\ Len(values) >= 5
       /\ \/ \E lo \in unique_values :
                /\ lo + 4 \in unique_values
                /\ Cardinality({v \in unique_values : lo <= v /\ v <= lo + 4}) = 5
          \/ {14, 2, 3, 4, 5} \subseteq unique_values

\* lines 124-134 and 204-212: the adjustment for the opponents, the clamp to
\* [0.05, 0.95] and the dictionary returned
FastResult(base_equity, category, opps) ==
    [kind |-> "equity_fast",
     equity |-> IF 4 * base_equity < 5 * (4 + opps) THEN <<5, 100>>
                ELSE IF 4 * base_equity > 95 * (4 + opps) THEN <<95, 100>>
                ELSE <<4 * base_equity, 100 * (4 + opps)>>,
     hand_strength |-> base_equity,
     hand_category |-> category,
     cached |-> FALSE]

\* _calculate_preflop_equity_fast, lines 67-135
calculate_preflop_equity_fast(hole_cards, opps) ==
    LET card1 == parse_card_fast(hole_cards[1])
        card2 == parse_card_fast(hole_cards[2])
        val1 == fast_card_value(card1[1])
        val2 == fast_card_value(card2[1])
        is_suited == card1[2] = card2[2]
        high_card == Max2(val1, val2)
        low_card == Min2(val1, val2)
        suited_bonus == IF is_suited THEN 5 ELSE 0
    IN IF val1 = val2
       THEN IF val1 >= 14 THEN FastResult(85, "pocket aces", opps)
            ELSE IF val1 >= 13 THEN FastResult(82, "pocket kings", opps)
            ELSE IF val1 >= 12 THEN FastResult(79, "pocket queens", opps)
            ELSE IF val1 >= 11 THEN FastResult(76, "pocket jacks", opps)
            ELSE IF val1 >= 10 THEN FastResult(73, "pocket tens", opps)
            ELSE FastResult(65, "middle pair", opps)
       ELSE IF high_card = 14 /\ low_card = 13
            THEN FastResult(IF is_suited THEN 70 ELSE 65,
                            IF is_suited THEN "AK suited" ELSE "AK offsuit",
                            opps)
       ELSE IF high_card = 14 /\ low_card = 12
            THEN FastResult(IF is_suited THEN 68 ELSE 62,
                            IF is_suited THEN "AQ suited" ELSE "AQ offsuit",
                            opps)
       ELSE IF high_card = 14
            THEN FastResult(55 + (low_card - 7) * 2 + suited_bonus,
                            IF is_suited THEN "ace s" ELSE "ace o", opps)
       ELSE FastResult(45 + (high_card - 7) + suited_bonus,
                       IF is_suited THEN "high card s" ELSE "high card o",
                       opps)

\* _calculate_postflop_equity_fast, lines 137-212
calculate_postflop_equity_fast(hole_cards, community_cards, opps) ==
    LET all_cards == hole_cards \o community_cards
        values == [i \in 1..Len(all_cards) |->
                      fast_card_value(parse_card_fast(all_cards[i])[1])]
        suits == [i \in 1..Len(all_cards) |-> parse_card_fast(all_cards[i])[2]]
        value_count(v) == Cardinality({i \in 1..Len(values) : values[i] = v})
        suit_count(u) == Cardinality({i \in 1..Len(suits) : suits[i] = u})
        max_count == SetMax({value_count(v) : v \in Range(values)})
        max_suit_count == SetMax({suit_count(u) : u \in Range(suits)})
        paired == {v \in Range(values) : value_count(v) >= 2}
    IN IF max_suit_count >= 5 /\ check_straight_fast(values)
       THEN IF SetMax(Range(values)) = 14 /\ SetMin(Range(values)) = 10
            THEN FastResult(99, "royal flush", opps)
            ELSE FastResult(95, "straight flush", opps)
       ELSE IF max_count >= 4 THEN FastResult(90, "four of a kind", opps)
       ELSE IF max_count = 3 /\ Cardinality(paired) >= 2
            THEN FastResult(85, "full house", opps)
       ELSE IF max_suit_count >= 5 THEN FastResult(80, "flush", opps)
       ELSE IF check_straight_fast(values) THEN FastResult(75, "straight", opps)
       ELSE IF max_count = 3 THEN FastResult(70, "three of a kind", opps)
       ELSE IF Cardinality(paired) >= 2 THEN FastResult(65, "two pair", opps)
       ELSE IF max_count = 2
            THEN IF SetMax(paired) >= 11 THEN FastResult(60, "high pair", opps)
                 ELSE FastResult(55, "low pair", opps)
       ELSE IF SetMax(Range(values)) >= 12
            THEN FastResult(52, "high card (strong)", opps)
       ELSE FastResult(48, "high card (weak)", opps)

\* lines 34 and 53: f"{','.join(hole_cards)}_{','.join(community_cards)}_{num_opponents}"
\* (the number of opponents has one digit)
cache_key(hole_cards, community_cards, opps) ==
    JoinWith(hole_cards, <<",">>) \o <<"_">> \o JoinWith(community_cards, <<",">>)
        \o <<"_">> \o <<CHOOSE ch \in DigitChars : DigitVal(ch) = opps>>

\* a plausible slip: the result is never stored
CacheStoreNothing(state, key, equity_result) == state

\* lines 50-54: tool_context.state["equity_cache"][cache_key] = equity_result
CacheStore(state, key, equity_result) ==
    [present |-> TRUE,
     entries |-> [k \in (DOMAIN state.entries) \cup {key} |->
                     IF k = key THEN equity_result ELSE state.entries[k]]]

\* calculate_equity_fast, lines 21-64, with a tool_context: the value
\* returned and the tool_context.state left behind
calculate_equity_fast(hole_cards, community_cards, opps, state) ==
    LET key == cache_key(hole_cards, community_cards, opps)
    IN IF Len(hole_cards) # 2
       THEN [result |-> ErrorResult("hole_cards"), state |-> state]
       ELSE IF state.present /\ key \in DOMAIN state.entries
       THEN \* lines 36-39: the stored dictionary is flagged and returned
            LET cached_result == [state.entries[key] EXCEPT !.cached = TRUE]
            IN [result |-> cached_result, state |-> CacheStore(state, key, cached_result)]
       ELSE LET equity_result ==
                    IF Len(community_cards) = 0
                    THEN calculate_preflop_equity_fast(hole_cards, opps)
                    ELSE calculate_postflop_equity_fast(hole_cards, community_cards,
                                                        opps)
            IN [result |-> equity_result, state |-> CacheStore(state, key, equity_result)]

\* one call of calculate_equity_fast; the tool_context is shared by the calls
F_Call ==
    /\ impl = "team2_equity_fast"
    /\ pc \in {"start", "done"}
    /\ Len(calls) < MaxCalls
    /\ \E hole_cards \in { <<T_As, T_Kd>>, <<T_As>> },
          community_cards \in { <<>>, << <<>> >>, <<T_Ah, T_Kh, T_Qd>> },
          opps \in {1, 2} :
          LET r == calculate_equity_fast(hole_cards, community_cards, opps, tool_state)
          IN /\ result' = r.result
             /\ tool_state' = r.state
             /\ calls' = Append(calls, [hole_cards |-> hole_cards,
                                        community_cards |-> community_cards,
                                        num_opponents |-> opps,
                                        result |-> r.result])
    /\ pc' = "done"
    /\ UNCHANGED <<inputs, ctx, recommendation, pot_odds, spr, hole, board,
                   num_opponents, simulated, it, wins, ties, trials, share, opponents,
                   deck_after_opps, final_board, last, random_state>>
    /\ UNCHANGED nvars

(***************************************************************************)
(* team2: integration/result_integrator.py.  Scores are in thousandths,    *)
(* the equity in hundredths; the confidence labels are "high", "mid" and   *)
(* "low".                                                                  *)
(***************************************************************************)
\* _parse_action_type, lines 158-172
parse_action_type(action_str) ==
    LET action_lower == Lower(action_str)
    IN IF Contains(action_lower, W_fold) THEN "fold"
       ELSE IF Contains(action_lower, W_check) THEN "check"
       ELSE IF Contains(action_lower, W_call) THEN "call"
       ELSE IF Contains(action_lower, W_raise) THEN "raise"
       ELSE IF \/ Contains(action_lower, W_allin)
               \/ Contains(action_lower, <<"a", "l", "l", "_", "i", "n">>)
            THEN "all_in"
       ELSE "fold"

\* _action_matches_recommendation, lines 214-223 (the recommendation is one
\* of the words)
action_matches_recommendation(action_type, rec_word) ==
    action_type \in {"call", "fold", "raise"} /\ rec_word = action_type

\* _calculate_action_score, lines 175-211
calculate_action_score(action_type, equity, pot_odds_decision, gto, phase) ==
    LET base_score ==
            IF action_type = "fold" THEN (IF equity < 30 THEN 100 ELSE -500)
            ELSE IF action_type = "check"
                 THEN (IF 30 <= equity /\ equity <= 60 THEN 300 ELSE 100)
            ELSE IF action_type = "call"
                 THEN (IF pot_odds_decision.profitable THEN 700 + 10 * pot_odds_decision.equity_margin
                       ELSE 200)
            ELSE IF action_type = "raise"
                 THEN (IF equity > 60 THEN 800 ELSE IF equity > 40 THEN 400 ELSE 100)
            ELSE IF action_type = "all_in"
                 THEN (IF equity > 80 THEN 900 ELSE IF equity > 60 THEN 300 ELSE 50)
            ELSE 0
        gto_bonus ==
            IF phase = "preflop" /\ gto.recommendation = action_type
            THEN 3 * gto.frequency ELSE 0
        confidence_bonus ==
            IF action_matches_recommendation(action_type, pot_odds_decision.recommendation)
            THEN (IF pot_odds_decision.confidence = "high" THEN 300
                  ELSE IF pot_odds_decision.confidence = "mid" THEN 200 ELSE 100)
            ELSE 0
    IN Max2(0, Min2(1000, base_score + gto_bonus + confidence_bonus))

\* the digits at the (1-based) position k of s and after it
RECURSIVE DigitRun(_, _)
DigitRun(s, k) ==
    IF k <= Len(s) /\ IsDigit(s[k]) THEN <<s[k]>> \o DigitRun(s, k + 1) ELSE <<>>

\* _parse_action_details, lines 226-255; sizing is <<>> or
\* <<recommended_size>>
parse_action_details(action_str, sizing, your_chips) ==
    LET action_type == parse_action_type(action_str)
        \* re.search(r"call \((\d+)\)", action_str)
        call_open == W_call \o <<" ", "(">>
        call_at == {k \in 1..Len(action_str) :
                       /\ OccursAt(action_str, call_open, k)
                       /\ DigitRun(action_str, k + 6) # <<>>
                       /\ OccursAt(action_str, <<")">>,
                                   k + 6 + Len(DigitRun(action_str, k + 6)))}
        \* re.search(r"raise.*min (\d+)", action_str)
        min_open == W_min \o <<" ">>
        min_at == {k \in 1..Len(action_str) :
                      /\ OccursAt(action_str, min_open, k)
                      /\ DigitRun(action_str, k + 4) # <<>>
                      /\ \E r \in 1..(k - 5) : OccursAt(action_str, W_raise, r)}
        min_raise == IF min_at = {} THEN 0
                     ELSE IntOf(DigitRun(action_str, SetMax(min_at) + 4))
        recommended_size == IF sizing = <<>> THEN min_raise ELSE sizing[1]
    IN IF action_type \in {"fold", "check"} THEN [action |-> action_type, amount |-> 0]
       ELSE IF action_type = "call"
            THEN [action |-> "call",
                  amount |-> IF call_at = {} THEN 0
                             ELSE IntOf(DigitRun(action_str, SetMin(call_at) + 6))]
       ELSE IF action_type = "raise"
            THEN [action |-> "raise",
                  amount |-> Min2(Max2(min_raise, recommended_size), your_chips)]
       ELSE [action |-> "all_in", amount |-> your_chips]

\* _make_integrated_decision, lines 121-155: the first action of the
\* highest score
make_integrated_decision(equity, pot_odds_decision, gto, sizing, available_actions, phase, your_chips) ==
    LET score(i) == calculate_action_score(parse_action_type(available_actions[i]),
                                           equity, pot_odds_decision, gto, phase)
    IN IF available_actions = <<>> THEN [action |-> "fold", amount |-> 0]
       ELSE LET top == SetMax({score(i) : i \in 1..Len(available_actions)})
                best == SetMin({i \in 1..Len(available_actions) : score(i) = top})
            IN parse_action_details(available_actions[best], sizing, your_chips)

I2_Integrate ==
    /\ impl = "team2_integrator"
    /\ pc = "start"
    /\ \E equity \in {20, 50, 70, 90},
          pot_odds_decision \in { \* _extract_pot_odds_decision of a failed tool
                         [recommendation |-> "fold", confidence |-> "low",
                          profitable |-> FALSE, equity_margin |-> 0],
                         [recommendation |-> "call", confidence |-> "high",
                          profitable |-> TRUE, equity_margin |-> 10],
                         [recommendation |-> "raise", confidence |-> "mid",
                          profitable |-> TRUE, equity_margin |-> 25] },
          gto \in { [recommendation |-> "fold", frequency |-> 0],
                    [recommendation |-> "raise", frequency |-> 80] },
          phase \in {"preflop", "flop"},
          sizing \in { <<>>, <<60>> },
          actions \in { <<W_check, W_bet \o <<" ", "(", "m", "i", "n", " ", "2", "5", ")">> >>,
                        <<W_fold, A_call20, A_raise40>>,
                        <<W_fold, A_Call50, A_raise100, A_allin1000>>,
                        <<W_check, A_raise40>>,
                        <<>> } :
          LET d == make_integrated_decision(equity, pot_odds_decision, gto, sizing, actions,
                                            phase, 950)
          IN /\ ctx' = [pot |-> 0, to_call |-> 0, actions |-> actions, stack |-> 950]
             /\ result' = [kind |-> "integrated", action |-> d.action,
                           amount |-> d.amount, equity |-> equity,
                           pot_odds |-> pot_odds_decision, gto |-> gto, phase |-> phase]
    /\ pc' = "done"
    /\ UNCHANGED <<inputs, recommendation, pot_odds, spr, hole, board, num_opponents,
                   simulated, it, wins, ties, trials, share, opponents,
                   deck_after_opps, final_board, last>>
    /\ UNCHANGED nvars
    /\ UNCHANGED kept

(***************************************************************************)
(* team3: tools/pokerkit_utils.py.  Card strings are in pokerkit's format, *)
(* two characters per card; strengths are in hundredths.                   *)
(***************************************************************************)
\* create_full_hand_string, lines 126-140
create_full_hand_string(hole_cards, community_cards) ==
    LET all_cards == hole_cards \o community_cards
    IN IF Len(all_cards) < 10 THEN all_cards
       ELSE IF Len(all_cards) > 10 THEN SubSeq(all_cards, 1, 10)
       ELSE all_cards

\* lines 160-179: the strength of a hand label, from 8 (straight flush; no
\* label of pokerkit reads "Royal flush") down to 0 (high card)
LabelStrength(label) ==
    IF label = 8 THEN 95
    ELSE IF label = 7 THEN 90
    ELSE IF label = 6 THEN 85
    ELSE IF label = 5 THEN 75
    ELSE IF label = 4 THEN 65
    ELSE IF label = 3 THEN 55
    ELSE IF label = 2 THEN 45
    ELSE IF label = 1 THEN 35
    ELSE 25

\* calculate_hand_strength, lines 143-185: pokerkit.StandardHighHand raises
\* ValueError unless the string holds five distinct cards, and its label is
\* the category of those five cards
calculate_hand_strength(hole_cards_str, community_cards_str) ==
    LET full_hand_str == create_full_hand_string(hole_cards_str, community_cards_str)
        cards == PkCards(full_hand_str)
    IN IF Len(hole_cards_str) < 4 THEN 0
       ELSE IF ~PkParses(full_hand_str) \/ Len(cards) # 5 \/ ~Injective(cards) THEN 0
       ELSE LabelStrength(EvaluateFive(Range(cards)) \div CategoryWeight)

H3_HandStrength ==
    /\ impl = "team3_hand_strength"
    /\ pc = "start"
    /\ result' = [kind |-> "strength",
                  strength |-> calculate_hand_strength(Join(in_hole), Join(in_comm))]
    /\ pc' = "done"
    /\ UNCHANGED <<inputs, ctx, recommendation, pot_odds, spr, hole, board,
                   num_opponents, simulated, it, wins, ties, trials, share, opponents,
                   deck_after_opps, final_board, last>>
    /\ UNCHANGED nvars
    /\ UNCHANGED kept

(***************************************************************************)
(* team3: tools/result_integrator.py.  A JSON object is the sequence of    *)
(* its <<key, value>> pairs in insertion order; frequencies are in tenths. *)
(***************************************************************************)
\* d.get(key, default)
DictGet(d, key, default) ==
    IF \E i \in 1..Len(d) : d[i][1] = key
    THEN d[CHOOSE i \in 1..Len(d) : d[i][1] = key][2]
    ELSE default

\* sum(action_mix.values())
RECURSIVE SumValues(_)
SumValues(d) == IF d = <<>> THEN 0 ELSE d[1][2] + SumValues(Tail(d))

\* a plausible slip: the first action of the mix, whatever its frequency
ChosenActionFirstKey(action_mix) == action_mix[1][1]

\* line 38: max(action_mix, key=action_mix.get), the first key in insertion
\* order among those of the highest frequency
ChosenAction(action_mix) ==
    LET top == SetMax({action_mix[i][2] : i \in 1..Len(action_mix)})
        first == CHOOSE i \in 1..Len(action_mix) :
                    /\ action_mix[i][2] = top
                    /\ \A j \in 1..(i - 1) : action_mix[j][2] # top
    IN action_mix[first][1]

\* integrate_tool_results, lines 26-54, on the decoded arguments; None and
\* the empty object are both falsy in line 33 and are both <<>> here
team3_integrate_tool_results(state, mix, sizing) ==
    LET action_mix == DictGet(mix, "mix", <<>>)
    IN IF action_mix = <<>> \/ SumValues(action_mix) = 0
       THEN [kind |-> "integrated", action |-> "fold", amount |-> 0]
       ELSE LET chosen_action == ChosenAction(action_mix)
            IN [kind |-> "integrated", action |-> chosen_action,
                amount |-> IF chosen_action = "raise"
                           THEN DictGet(sizing, "raise_amount", 0)
                           ELSE IF chosen_action = "call"
                           THEN DictGet(state, "to_call", 0)
                           ELSE 0]

I3_Integrate ==
    /\ impl = "team3_integrator"
    /\ pc = "start"
    /\ \E state \in { <<>>, << <<"to_call", 20>> >>,
                      << <<"pot", 200>>, <<"current_bet", 50>> >> },
          mix \in { <<>>,
                    << <<"action", "raise">>, <<"frequency", 7>> >>,
                    << <<"mix", <<>> >> >>,
                    << <<"mix", << <<"fold", 0>>, <<"call", 0>>, <<"raise", 0>> >> >> >>,
                    << <<"mix", << <<"raise", 7>>, <<"call", 2>>, <<"fold", 1>> >> >> >>,
                    << <<"mix", << <<"fold", 1>>, <<"call", 6>>, <<"raise", 3>> >> >> >>,
                    << <<"mix", << <<"fold", 1>>, <<"call", 3>>, <<"raise", 6>> >> >> >>,
                    << <<"mix", << <<"fold", 6>>, <<"raise", 4>> >> >> >>,
                    << <<"mix", << <<"call", 5>>, <<"raise", 5>> >> >> >>,
                    << <<"mix", << <<"fold", 2>>, <<"check", 8>> >> >> >> },
          sizing \in { <<>>, << <<"raise_amount", 150>> >> } :
          /\ ctx' = [state |-> state, mix |-> mix, sizing |-> sizing]
          /\ result' = team3_integrate_tool_results(state, mix, sizing)
    /\ pc' = "done"
    /\ UNCHANGED <<inputs, recommendation, pot_odds, spr, hole, board, num_opponents,
                   simulated, it, wins, ties, trials, share, opponents,
                   deck_after_opps, final_board, last>>
    /\ UNCHANGED nvars
    /\ UNCHANGED kept

Next ==
    \/ G_Fallback
    \/ G_Start
    \/ G_SampleOpponents
    \/ G_CompleteBoard
    \/ G_Score
    \/ G_Finish
    \/ K_Reject
    \/ K_Start
    \/ K_SampleFails
    \/ K_Sample
    \/ K_Score
    \/ K_Finish
    \/ P2_CalculatePotOdds
    \/ P3_CalculatePotOdds
    \/ I3_Integrate
    \/ I2_Integrate
    \/ F_Call
    \/ H3_HandStrength

Spec == Init /\ [][Next]_vars

(***************************************************************************)
(* calc_gto before the flop: the hero holds As Ks against two opponents,   *)
(* no community card is out.                                               *)
(***************************************************************************)
InitPreflop ==
    /\ IdleNorm
    /\ impl = "team1"
    /\ pc = "start"
    /\ in_hole = <<T_As, T_Ks>>
    /\ in_comm = <<>>
    /\ in_players = 3
    /\ in_iters \in 0..MaxIter
    /\ ctx = NoContext
    /\ recommendation = NoDecision
    /\ pot_odds = NoRatio
    /\ spr = NoRatio
    /\ hole = <<>>
    /\ board = <<>>
    /\ num_opponents = 0
    /\ simulated = FALSE
    /\ it = 0
    /\ wins = 0
    /\ ties = 0
    /\ trials = 0
    /\ share = 0
    /\ opponents = <<>>
    /\ deck_after_opps = {}
    /\ final_board = <<>>
    /\ last = NoTrial
    /\ result = NoResult
    /\ random_state = 0
    /\ tool_state = NoCache
    /\ calls = <<>>

NextPreflop ==
    \/ G_Start
    \/ G_SampleOpponents
    \/ G_CompleteBoard
    \/ G_Score
    \/ G_Finish

SpecPreflop == InitPreflop /\ [][NextPreflop]_vars

(***************************************************************************)
(* calc_gto called repeatedly by one process: the tool is invoked once per *)
(* decision, and "import random" (line 14) binds the generator the whole   *)
(* process shares.  The hero holds As Kd on the board Ah Kh Qd Qc against  *)
(* one opponent.                                                           *)
(***************************************************************************)
\* calc_gto returns and the caller invokes it again with the same cards:
\* the locals of the finished call are gone, the generator's state is not
G_Return ==
    /\ impl = "team1"
    /\ pc = "done"
    /\ Len(calls) + 1 < MaxCalls
    /\ calls' = Append(calls, [impl |-> impl, iterations |-> in_iters])
    /\ pc' = "start"
    /\ ctx' = NoContext
    /\ recommendation' = NoDecision
    /\ pot_odds' = NoRatio
    /\ spr' = NoRatio
    /\ hole' = <<>>
    /\ board' = <<>>
    /\ num_opponents' = 0
    /\ simulated' = FALSE
    /\ it' = 0
    /\ wins' = 0
    /\ ties' = 0
    /\ trials' = 0
    /\ share' = 0
    /\ opponents' = <<>>
    /\ deck_after_opps' = {}
    /\ final_board' = <<>>
    /\ last' = NoTrial
    /\ result' = NoResult
    /\ UNCHANGED <<inputs, random_state, tool_state>>
    /\ UNCHANGED nvars

InitCalls ==
    /\ IdleNorm
    /\ impl = "team1"
    /\ pc = "start"
    /\ in_hole = <<T_As, T_Kd>>
    /\ in_comm = <<T_Ah, T_Kh, T_Qd, T_Qc>>
    /\ in_players = 2
    /\ in_iters \in 1..2
    /\ ctx = NoContext
    /\ recommendation = NoDecision
    /\ pot_odds = NoRatio
    /\ spr = NoRatio
    /\ hole = <<>>
    /\ board = <<>>
    /\ num_opponents = 0
    /\ simulated = FALSE
    /\ it = 0
    /\ wins = 0
    /\ ties = 0
    /\ trials = 0
    /\ share = 0
    /\ opponents = <<>>
    /\ deck_after_opps = {}
    /\ final_board = <<>>
    /\ last = NoTrial
    /\ result = NoResult
    /\ random_state = 0
    /\ tool_state = NoCache
    /\ calls = <<>>

NextCalls ==
    \/ G_Start
    \/ G_SampleOpponents
    \/ G_CompleteBoard
    \/ G_Score
    \/ G_Finish
    \/ G_Return

SpecCalls == InitCalls /\ [][NextCalls]_vars

(***************************************************************************)
(* The normalizer applied to drawn inputs.                                 *)
(***************************************************************************)
\* legal-action lists: 1 to MaxActions distinct descriptors, in any order
ActionLists ==
    {l \in UNION {[1..n -> ActionStrings] : n \in 1..MaxActions} : Injective(l)}

RecActions == {"fold", "check", "call", "raise", "all_in", "all-in", "bet"}

RecAmounts == {-5, 0, 45, 200}

Stacks == {0, 30, 60}

InitNorm ==
    /\ n_pc = "call"
    /\ n_rec \in [action : RecActions, amount : RecAmounts]
    /\ n_actions \in ActionLists
    /\ n_stack \in Stacks
    /\ n_out = NoDecision
    /\ IdleSim

Normalize ==
    /\ n_pc = "call"
    /\ n_out' = normalize_recommended_action(n_rec, n_actions, n_stack)
    /\ n_pc' = "done"
    /\ UNCHANGED <<n_rec, n_actions, n_stack>>
    /\ UNCHANGED svars

NextNorm == Normalize

SpecNorm == InitNorm /\ [][NextNorm]_vars

(***************************************************************************)
(* What "legal" means for a claim: the kind of a descriptor is its first   *)
(* word in lower case; the decision all_in is the descriptor kind all-in.  *)
(***************************************************************************)
RECURSIVE FirstWord(_)
FirstWord(s) ==
    IF s = <<>> \/ Head(s) = " " THEN <<>>
    ELSE <<LowerChar(Head(s))>> \o FirstWord(Tail(s))

LegalKinds(actions) == {FirstWord(actions[i]) : i \in 1..Len(actions)}

KindWord(action) ==
    CASE action = "fold" -> W_fold
      [] action = "check" -> W_check
      [] action = "call" -> W_call
      [] action = "raise" -> W_raise
      [] action \in {"all_in", "all-in"} -> W_allin
      [] action = "bet" -> W_bet
      [] OTHER -> <<>>

IsLegal(action, actions) == KindWord(action) \in LegalKinds(actions)

\* C1: with fold in the legal-action list, the action the normalizer returns
\* is the kind of one of the legal actions, whatever was recommended.
C1_ActionLegalWhenFoldLegal ==
    (n_pc = "done" /\ W_fold \in LegalKinds(n_actions))
        => IsLegal(n_out.action, n_actions)

\* C1 witness: a raise was recommended, only fold and a bet are legal, and
\* the normalizer answered fold.
C1_Witness ==
    /\ n_pc = "done"
    /\ n_rec.action = "raise"
    /\ LegalKinds(n_actions) = {W_fold, W_bet}
    /\ n_out.action = "fold"

\* C2 (as claimed): the returned amount is within [0, stack].
C2_AmountWithinStack ==
    n_pc = "done" => (0 <= n_out.amount /\ n_out.amount <= n_stack)

\* C3 (as claimed): the returned action is legal, or it is fold.
C3_NeverInventsAction ==
    n_pc = "done" => (IsLegal(n_out.action, n_actions) \/ n_out.action = "fold")

\* the degrade chain of a recommendation
Chain(action) ==
    CASE action = "raise" -> <<"raise", "call", "check", "fold">>
      [] action \in {"all_in", "all-in"} -> <<"all_in", "raise", "call", "check", "fold">>
      [] OTHER -> <<>>

\* C4: for a raise or all_in recommendation, the returned action is the
\* first element of its chain (raise, call, check, fold; all_in, raise, call,
\* check, fold) that is legal, whenever some element of the chain is legal.
C4_FirstLegalOfChain ==
    (n_pc = "done" /\ n_rec.action \in {"raise", "all_in", "all-in"})
        => LET chain == Chain(n_rec.action) IN
           \A k \in 1..Len(chain) :
               (/\ IsLegal(chain[k], n_actions)
                /\ \A j \in 1..(k - 1) : ~IsLegal(chain[j], n_actions))
                   => n_out.action = chain[k]

\* C4 witness: all_in recommended with neither all-in nor raise legal, call
\* and check both legal: the answer is call, the earlier of the two.
C4_Witness ==
    /\ n_pc = "done"
    /\ n_rec.action = "all_in"
    /\ ~IsLegal("all_in", n_actions)
    /\ ~IsLegal("raise", n_actions)
    /\ IsLegal("call", n_actions)
    /\ IsLegal("check", n_actions)
    /\ n_out.action = "call"

(***************************************************************************)
(* Claims about the simulation loops and calc_gto.                         *)
(***************************************************************************)
\* C5 (as claimed): the credit of a scored trial is 1/winners when the
\* hero's hand is among the best of the hero's and the opponents' hands
\* (winners of them tie for best), and 0 otherwise.
C5_CreditIsShareOfWinners ==
    last.scored =>
        IF last.hero_best THEN last.cn * last.winners = last.cd ELSE last.cn = 0

\* a token of the call did not parse
ParseFailed == ~(AllParsed(in_hole) /\ AllParsed(in_comm))

\* C6 (as claimed): after a parse failure calc_gto returns, without
\* simulating, check when to_call = 0 and fold otherwise, with amount 0.
C6_FallbackCheckIfFreeElseFold ==
    (impl = "team1" /\ pc = "done" /\ ParseFailed)
        => /\ ~simulated
           /\ result.kind = "decision"
           /\ result.action = (IF ctx.to_call = 0 THEN "check" ELSE "fold")
           /\ result.amount = 0

\* C6 (amended): after a parse failure calc_gto returns, without simulating
\* and with amount 0, the safe default as normalised against the legal
\* actions: check whenever check is legal; otherwise fold, except that with
\* to_call = 0 and neither check nor fold legal it is check.
C6_FallbackNormalised ==
    (impl = "team1" /\ pc = "done" /\ ParseFailed)
        => /\ ~simulated
           /\ result.kind = "decision"
           /\ result.fallback
           /\ result.amount = 0
           /\ result.action =
                 (IF IsLegal("check", ctx.actions) THEN "check"
                  ELSE IF ctx.to_call # 0 \/ IsLegal("fold", ctx.actions) THEN "fold"
                  ELSE "check")

\* C6 witness: a token failed to parse, nothing is to call, check is not
\* legal and fold is: the decision is fold.
C6_Witness ==
    /\ impl = "team1"
    /\ pc = "done"
    /\ ParseFailed
    /\ ctx.to_call = 0
    /\ ~IsLegal("check", ctx.actions)
    /\ IsLegal("fold", ctx.actions)
    /\ result.action = "fold"
    /\ result.amount = 0

\* every token parses and some card is given twice
DuplicateInput ==
    /\ AllParsed(in_hole)
    /\ AllParsed(in_comm)
    /\ ~Injective(CardsOf(in_hole) \o CardsOf(in_comm))

\* C7 (as claimed): when a card is given twice among hole and community
\* cards, the duplicate is detected: no simulation is entered, and the caller
\* gets the duplicate error or the fallback decision.
C7_DuplicateIsDetected ==
    (pc = "done" /\ DuplicateInput)
        => /\ ~simulated
           /\ \/ result.kind = "error"
              \/ (result.kind = "decision" /\ result.fallback)

\* C8 (as claimed): when the remaining deck holds fewer cards than
\* 2 * num_opponents + (5 - |known board|), the call ends in an error and
\* returns no equity.
C8_ShortDeckIsAnError ==
    (/\ pc = "done"
     /\ simulated
     /\ Len(hole) = 2
     /\ Len(board) \in {0, 3, 4, 5}
     /\ Cardinality(Remaining) < 2 * num_opponents + (5 - Len(board)))
        => result.kind = "error"

\* the cards in play in the current trial: hole cards, board (completed,
\* once it is), and the opponents' hole cards
TrialCards ==
    hole \o (IF pc = "score" THEN final_board ELSE board) \o Join(opponents)

\* C9: given duplicate-free hole and community cards, no card appears twice
\* among the hero's hole cards, the known community cards, the sampled
\* opponent hole cards and the sampled board cards of a trial.
C9_NoCardTwiceInTrial ==
    (pc \in {"board", "score"} /\ Injective(hole \o board))
        => Injective(TrialCards)

\* C9 witness: a team1 trial with duplicate-free input in which an opponent's
\* hand and two board cards were sampled.
C9_Witness ==
    /\ impl = "team1"
    /\ pc = "score"
    /\ Injective(hole \o board)
    /\ Len(opponents) = 1
    /\ Len(final_board) = Len(board) + 2

\* C10: the accumulated credit never exceeds the number of completed trials,
\* and every equity returned lies in [0, 1].
C10_EquityWithinUnitInterval ==
    /\ impl = "team1" => (2 * wins + ties <= 2 * trials /\ trials <= it)
    /\ impl = "team4" => share <= it * ShareUnit
    /\ result.kind \in {"decision", "equity"}
          => (0 <= result.en /\ result.en <= result.ed /\ result.ed > 0)

\* C10 witness: calc_gto returned the equity 3/4 of one win and one tie in
\* two trials.
C10_Witness ==
    /\ impl = "team1"
    /\ pc = "done"
    /\ wins = 1
    /\ ties = 1
    /\ trials = 2
    /\ result.kind = "decision"
    /\ result.en = 3
    /\ result.ed = 4

(***************************************************************************)
(* Claims about the policy of calc_gto.                                    *)
(***************************************************************************)
\* a decision of calc_gto that came from the policy, facing a bet, with a
\* non-negative pot
FacingBetDecision ==
    /\ impl = "team1" /\ pc = "done"
    /\ result.kind = "decision" /\ ~result.fallback
    /\ ctx.to_call > 0 /\ ctx.pot >= 0

\* equity > required_equity + 0.05, with required_equity =
\* to_call / (pot + to_call)
ClearsMargin ==
    20 * (result.en * (ctx.pot + ctx.to_call) - ctx.to_call * result.ed)
        > result.ed * (ctx.pot + ctx.to_call)

Continues == recommendation.action \in {"call", "raise", "all_in"}

\* C11 (as claimed): facing a bet, for every equity above required_equity +
\* 0.05 the policy's recommendation is call, raise or all-in, never fold.
C11_ContinuesAboveMargin ==
    (FacingBetDecision /\ ClearsMargin) => Continues

\* C11 (amended): facing a bet, for every equity above both required_equity +
\* 0.05 and 0.5 the policy's recommendation is call, raise or all-in, never
\* fold.
C11_ContinuesAboveMarginAndHalf ==
    (FacingBetDecision /\ ClearsMargin /\ 2 * result.en > result.ed) => Continues

\* a decision facing a bet whose equity is above the margin and above 0.5 but
\* below 0.7, so that the cautious branch decided
C11_Witness ==
    /\ FacingBetDecision /\ ClearsMargin
    /\ 2 * result.en > result.ed
    /\ 10 * result.en < 7 * result.ed
    /\ recommendation.action = "call"

\* the context of the example: pot 30, to_call 20, stack 1000, legal actions
\* fold, call (20), raise (min 40)
PreflopExample ==
    /\ impl = "team1" /\ pc = "done"
    /\ in_hole = <<T_As, T_Ks>> /\ in_comm = <<>> /\ in_players = 3
    /\ ctx = [pot |-> 30, to_call |-> 20, stack |-> 1000,
              actions |-> <<W_fold, A_call20, A_raise40>>]

\* C12: for hole As Ks, empty board, pot 30, to_call 20, stack 1000, two
\* opponents and legal actions fold, call (20), raise (min 40), every outcome
\* is call with amount 20 or raise with an amount in 40..1000, never fold.
C12_PremiumHandNeverFolds ==
    PreflopExample =>
        /\ result.kind = "decision"
        /\ \/ result.action = "call" /\ result.amount = 20
           \/ result.action = "raise" /\ result.amount \in 40..1000

\* C19: a raise returned by the normalizer, from a raise or from a degraded
\* all_in recommendation, has an amount of at most the stack, and of at least
\* the declared minimum raise unless that minimum exceeds the stack.
C19_RaiseBetweenMinimumAndStack ==
    (n_pc = "done" /\ n_out.action = "raise" /\ HasRaise(Available(n_actions))) =>
        /\ n_out.amount <= n_stack
        /\ extract_min_raise(n_actions) <= n_stack =>
               n_out.amount >= extract_min_raise(n_actions)

\* a decision of calc_gto that came from the policy with nothing to call
NoPressureDecision ==
    /\ impl = "team1" /\ pc = "done"
    /\ result.kind = "decision" /\ ~result.fallback
    /\ ctx.to_call = 0

\* the weight the returned strategy gives an action, 0 when it is absent
Weight(k) == IF k \in DOMAIN result.strategy THEN result.strategy[k] ELSE 0

\* C20: with to_call = 0, for equity >= 0.65 the recommendation is raise, with
\* smaller positive weights on check and all-in; for equity in [0.5, 0.65) the
\* recommendation is check and check outweighs a positive raise weight; for
\* equity < 0.5 the recommendation is check.
C20_NoPressureZones ==
    NoPressureDecision =>
        IF 20 * result.en >= 13 * result.ed
        THEN /\ recommendation.action = "raise"
             /\ 0 < Weight("check") /\ Weight("check") < Weight("raise")
             /\ 0 < Weight("all_in") /\ Weight("all_in") < Weight("raise")
        ELSE IF 2 * result.en >= result.ed
        THEN /\ recommendation.action = "check"
             /\ 0 < Weight("raise") /\ Weight("raise") < Weight("check")
        ELSE recommendation.action = "check"

(***************************************************************************)
(* Claims about pot odds, SPR and the validation of a request.             *)
(***************************************************************************)
\* calc_gto or team3's calculate_pot_odds has returned for a non-negative
\* pot and amount to call
PotOddsComputed ==
    /\ impl \in {"team1", "team3_pot_odds"} /\ pc = "done"
    /\ ctx.pot >= 0 /\ ctx.to_call >= 0

\* C13: for non-negative to_call and pot, required_equity equals
\* to_call / (pot + to_call), is 0 when to_call = 0, and lies in [0, 1].
C13_RequiredEquity ==
    PotOddsComputed =>
        /\ pot_odds[2] > 0
        /\ 0 <= pot_odds[1] /\ pot_odds[1] <= pot_odds[2]
        /\ IF ctx.to_call = 0 THEN pot_odds[1] = 0
           ELSE pot_odds[1] * (ctx.pot + ctx.to_call) = ctx.to_call * pot_odds[2]

\* calc_gto computed pot odds of 20 / 50 from a simulated equity
C13_Witness ==
    /\ PotOddsComputed /\ impl = "team1" /\ simulated
    /\ ctx.pot = 30 /\ ctx.to_call = 20
    /\ pot_odds = <<20, 50>>

\* C14: the pot-odds/EV functions return a value for every pot >= 0, call
\* amount >= 0 and equity in [0, 1]; they never fail.
C14_PotOddsTotal ==
    (/\ impl \in {"team2_pot_odds", "team3_pot_odds"} /\ pc = "done"
     /\ ctx.pot >= 0 /\ ctx.to_call >= 0) => result.kind # "error"

\* C15: a negative pot or a negative call amount is rejected with an error;
\* no pot-odds or EV result is returned for it.
C15_NegativeRejected ==
    (/\ impl = "team2_pot_odds" \/ (impl = "team1" /\ simulated)
     /\ pc = "done"
     /\ (ctx.pot < 0 \/ ctx.to_call < 0)) => result.kind = "error"

\* C16: a request with zero opponents is rejected; no equity is computed for
\* it and no other opponent count is put in its place.
C16_ZeroOpponentsRejected ==
    (/\ impl \in {"team1", "team4"} /\ pc = "done"
     /\ in_players - 1 = 0) =>
        (result.kind = "error" /\ ~simulated /\ num_opponents = 0)

\* C17: a board of a length other than 0, 3, 4 or 5 is rejected with an error;
\* no equity or decision is computed from it.
C17_BoardLengthRejected ==
    (/\ impl \in {"team1", "team4"} /\ pc = "done"
     /\ Len(in_comm) \notin {0, 3, 4, 5}) => result.kind = "error"

\* C18: for stack >= 0 and pot > 0 the stack-to-pot ratio equals stack / pot
\* (the pot before calling); for pot = 0 it is the sentinel.
C18_StackToPotRatio ==
    (PotOddsComputed /\ ctx.stack >= 0) =>
        IF ctx.pot > 0
        THEN spr[2] > 0 /\ spr[1] * ctx.pot = ctx.stack * spr[2]
        ELSE spr \in {Infinity, <<SprSentinel, 1>>}

\* C21: facing a bet with an equity that clears the margin narrowly (equity
\* < 0.70 and SPR > 2), the recommendation is call and raise has the smaller
\* weight, also when equity - required_equity exceeds 0.15.
C21_NarrowMarginCalls ==
    (/\ FacingBetDecision /\ ClearsMargin
     /\ 2 * result.en > result.ed
     /\ 10 * result.en < 7 * result.ed
     /\ (spr = Infinity \/ spr[1] > 2 * spr[2])) =>
        /\ recommendation.action = "call"
        /\ Weight("raise") < Weight("call")

\* C22: in every policy zone and on the parse-failure path the returned
\* strategy has only strictly positive weights and they sum to 1 (1000
\* thousandths).
C22_StrategyIsDistribution ==
    (impl = "team1" /\ pc = "done" /\ result.kind = "decision") =>
        /\ \A k \in DOMAIN result.strategy : result.strategy[k] > 0
        /\ Weight("fold") + Weight("check") + Weight("call")
             + Weight("raise") + Weight("all_in") = 1000

\* a returned strategy of three actions, from a simulated equity
C22_Witness ==
    /\ impl = "team1" /\ pc = "done" /\ result.kind = "decision"
    /\ simulated /\ trials > 0
    /\ DOMAIN result.strategy = {"call", "raise", "all_in"}

\* C26: a trial that cannot draw its cards is skipped, not retried: the step
\* that skips it advances the loop by one and leaves wins, ties and trials
\* alone; and the loop has made exactly max(1, iterations) attempts when
\* calc_gto returns.
C26_SkippedTrialNotRetried ==
    /\ [][(impl = "team1" /\ pc \in {"loop", "board"} /\ pc' = "loop") =>
              (/\ it' = it + 1
               /\ wins' = wins /\ ties' = ties /\ trials' = trials)]_vars
    /\ []((/\ impl = "team1" /\ pc = "done" /\ simulated /\ Len(hole) = 2) =>
             (it = Max2(1, in_iters) /\ trials <= it))

\* calc_gto has returned after a loop of three attempts none of which was
\* scored: the deck could not serve the opponents
C26_Witness ==
    /\ impl = "team1" /\ pc = "done" /\ simulated /\ Len(hole) = 2
    /\ it = 3 /\ trials = 0 /\ wins = 0 /\ ties = 0

\* C27: with to_call = 0 and 'check' among the legal actions calc_gto never
\* returns fold, whatever the equity and also after a parse failure: the
\* action is check, raise, call or all_in.
C27_NoFoldWhenCheckIsFree ==
    (/\ impl = "team1" /\ pc = "done" /\ result.kind = "decision"
     /\ ctx.to_call = 0
     /\ \E i \in 1..Len(ctx.actions) : ctx.actions[i] = W_check) =>
        result.action \in {"check", "raise", "call", "all_in"}

\* the policy recommended a raise that is not legal, with check legal and
\* nothing to call; check came back
C27_Witness ==
    /\ impl = "team1" /\ pc = "done" /\ result.kind = "decision"
    /\ ctx.to_call = 0
    /\ \E i \in 1..Len(ctx.actions) : ctx.actions[i] = W_check
    /\ recommendation.action = "raise"
    /\ result.action = "check"

(***************************************************************************)
(* Claims about the card-token parser.                                     *)
(***************************************************************************)
\* the recognised rank names
RankKeys ==
    {<<"2">>, <<"3">>, <<"4">>, <<"5">>, <<"6">>, <<"7">>, <<"8">>, <<"9">>,
     <<"1", "0">>, <<"t">>, <<"j">>, <<"q">>, <<"k">>, <<"a">>}

NotSuitSymbol(ch) == ch \notin SuitSymbols

IsSuitSymbol(ch) == ch \in SuitSymbols

\* a recognised rank followed by a recognised suit symbol
StrictToken(t) ==
    /\ Len(t) >= 2
    /\ t[Len(t)] \in SuitSymbols
    /\ Lower(SubSeq(t, 1, Len(t) - 1)) \in RankKeys

\* a recognised rank, with no suit symbol, or with one suit symbol last, or
\* with one kind of suit symbol elsewhere and not last
LenientToken(t) ==
    LET symbols == SelectSeq(t, IsSuitSymbol) IN
    /\ Lower(SelectSeq(t, NotSuitSymbol)) \in RankKeys
    /\ \A i, j \in 1..Len(symbols) : symbols[i] = symbols[j]
    /\ t[Len(t)] \in SuitSymbols => Len(symbols) = 1

\* the suit a lenient token names: its suit symbol's, or the spade
LenientSuit(t) ==
    LET symbols == SelectSeq(t, IsSuitSymbol) IN
    IF symbols = <<>> THEN "SPADES"
    ELSE IF symbols[1] \in {"{heart}", "h"} THEN "HEARTS"
    ELSE IF symbols[1] \in {"{diamond}", "d"} THEN "DIAMONDS"
    ELSE IF symbols[1] \in {"{club}", "c"} THEN "CLUBS"
    ELSE "SPADES"

AllTokens == in_hole \o in_comm

\* C25 (as claimed): parsing succeeds only for a recognised rank followed by a
\* recognised suit symbol; a bare rank or a token with the suit not last
\* fails with an error.
C25_OnlyRankThenSuitParses ==
    (/\ impl = "team1" /\ pc # "start"
     /\ \E i \in 1..Len(AllTokens) : ~StrictToken(AllTokens[i])) => ~simulated

\* C25 (amended): parsing succeeds exactly for a recognised rank with a
\* recognised suit symbol last, or with one kind of suit symbol elsewhere in
\* the token, or with no suit symbol (the suit is then the spade); the Card
\* has that rank and suit; every other token fails with an error.
C25_LenientParse ==
    (impl = "team1" /\ pc # "start") =>
        /\ simulated <=> \A i \in 1..Len(AllTokens) : LenientToken(AllTokens[i])
        /\ simulated =>
              \A i \in 1..Len(in_hole) :
                 /\ hole[i].suit = LenientSuit(in_hole[i])
                 /\ hole[i].rank \in 2..14
                 /\ \E k \in RankKeys :
                       /\ k = Lower(SelectSeq(in_hole[i], NotSuitSymbol))
                       /\ hole[i].rank = RANK_NAME_TO_VALUE(k)

\* the token "sA" was parsed to the ace of spades
C25_Witness ==
    /\ impl = "team1" /\ pc # "start" /\ simulated
    /\ in_hole[1] = <<"s", "A">>
    /\ hole[1] = Card(14, "SPADES")

\* C30: team3's integrate_tool_results returns fold with amount 0 when the
\* range input has no 'mix' entry (or an empty one) or its frequencies sum
\* to 0; otherwise the returned action is in the mix with a frequency no
\* other action exceeds, and the amount is the sizing's raise_amount for
\* raise, the state's to_call for call and 0 for fold.
C30_IntegratorFollowsMix ==
    (impl = "team3_integrator" /\ pc = "done") =>
        LET am == IF \E i \in 1..Len(ctx.mix) : ctx.mix[i][1] = "mix"
                  THEN (CHOOSE e \in Range(ctx.mix) : e[1] = "mix")[2]
                  ELSE <<>>
            Given(d, key) == {e[2] : e \in {x \in Range(d) : x[1] = key}}
        IN IF am = <<>> \/ SumValues(am) = 0
           THEN result.action = "fold" /\ result.amount = 0
           ELSE /\ \E e \in Range(am) :
                      /\ e[1] = result.action
                      /\ \A o \in Range(am) : o[2] <= e[2]
                /\ result.action = "raise" =>
                      \A v \in Given(ctx.sizing, "raise_amount") : result.amount = v
                /\ result.action = "call" =>
                      \A v \in Given(ctx.state, "to_call") : result.amount = v
                /\ result.action = "fold" => result.amount = 0

\* the mix's top action is a raise that is not listed first, and the sizing
\* names the amount
C30_Witness ==
    /\ impl = "team3_integrator"
    /\ pc = "done"
    /\ result.action = "raise"
    /\ result.amount = 150
    /\ DictGet(ctx.mix, "mix", <<>>)[1][1] = "fold"

\* C29: for a non-empty list of available actions, the kind of action the
\* team2 result integrator returns is the kind (first word) of one of the
\* available actions; in particular it is fold only when a fold is
\* available.
C29_IntegratedActionAvailable ==
    (impl = "team2_integrator" /\ pc = "done" /\ ctx.actions # <<>>) =>
        IsLegal(result.action, ctx.actions)

\* C23: the random source a simulation call draws from is local to the call
\* or seeded by it: whatever was called before, a call of the engine starts
\* with the source in the state a first call finds it in.
C23_RandomSourcePerCall ==
    (impl \in {"team1", "team4"} /\ pc = "start") => random_state = 0

\* C28: among the calculate_equity_fast calls that share one tool_context,
\* a call with the hole cards, community cards and number of opponents of
\* an earlier call that succeeded returns that call's equity, hand_strength
\* and hand_category and is flagged cached; a call rejected for its hole
\* cards leaves the cache as it was.
C28_RepeatedCallServedFromCache ==
    /\ [](impl = "team2_equity_fast" =>
            \A i, j \in 1..Len(calls) :
                (/\ i < j
                 /\ calls[i].hole_cards = calls[j].hole_cards
                 /\ calls[i].community_cards = calls[j].community_cards
                 /\ calls[i].num_opponents = calls[j].num_opponents
                 /\ calls[i].result.kind # "error") =>
                    /\ calls[j].result.kind = "equity_fast"
                    /\ calls[j].result.cached
                    /\ calls[j].result.equity = calls[i].result.equity
                    /\ calls[j].result.hand_strength = calls[i].result.hand_strength
                    /\ calls[j].result.hand_category = calls[i].result.hand_category)
    /\ [][(/\ impl = "team2_equity_fast"
           /\ Len(calls') = Len(calls) + 1
           /\ Len(calls'[Len(calls')].hole_cards) # 2) =>
              tool_state' = tool_state]_vars

\* a flop was evaluated, another board came between, and the flop's call
\* was repeated; a call with one hole card was rejected
C28_Witness ==
    /\ impl = "team2_equity_fast"
    /\ Len(calls) = 3
    /\ calls[1].community_cards # <<>>
    /\ calls[1].result.kind = "equity_fast"
    /\ calls[2].result.kind = "error"
    /\ calls[3].hole_cards = calls[1].hole_cards
    /\ calls[3].community_cards = calls[1].community_cards
    /\ calls[3].num_opponents = calls[1].num_opponents
    /\ calls[3].result.cached

\* C24: for six or seven cards (hole plus community), the evaluation is the
\* one of the best five-card subset under the hand ranking, whatever the
\* order the cards are supplied in.
C24_BestFiveOfSeven ==
    (/\ impl = "team3_hand_strength"
     /\ pc = "done"
     /\ Len(in_hole) = 2
     /\ Len(in_comm) \in {4, 5}
     /\ PkParses(Join(in_hole \o in_comm))
     /\ Injective(PkCards(Join(in_hole \o in_comm)))) =>
        result.strength =
            LabelStrength(evaluate_hand(PkCards(Join(in_hole)), PkCards(Join(in_comm)))
                              \div CategoryWeight)

====
